---- MODULE Spec2Model ----
(***************************************************************************)
(* A model of litechain's agent core (src/src/llm/base.ts) and of the      *)
(* OpenAI adapter's tool loop (src/src/llm/openai.ts).                     *)
(*                                                                         *)
(* Strings are sequences of lexical items: a word of plain text, a blank,  *)
(* a {placeholder}, a [TRANSFER:x] or [ESCALATE:x] directive token, or an  *)
(* inline error marker.  The regular expressions of the code are modelled  *)
(* by what they match on such sequences.                                   *)
(***************************************************************************)
EXTENDS Integers, Sequences, FiniteSets, TLC

(***************************************************************************)
(* Bounds of the model.                                                    *)
(***************************************************************************)
\* Number of top-level invoke/run calls made by the application.
MaxCalls == 2

(***************************************************************************)
(* Strings.                                                                *)
(***************************************************************************)
Txt(s) == [k |-> "txt", v |-> s]
Sp == [k |-> "sp", v |-> " "]
Nl == [k |-> "nl", v |-> "\n"]
Ph(n) == [k |-> "ph", v |-> n]
Dir(kind, t) == [k |-> kind, v |-> t]

IsDirective(it) == it.k \in {"TRANSFER", "ESCALATE"}

RECURSIVE Flatten(_)
Flatten(ss) == IF ss = <<>> THEN <<>> ELSE Head(ss) \o Flatten(Tail(ss))

\* Names every object literal inherits from Object.prototype.
ObjectPrototypeKeys == {"constructor"}

\* A template may also be given character by character: an opening brace, a
\* closing brace, and W(s), a maximal run of word characters.  Ph(n) is the
\* three of them taken as one item.
Open == [k |-> "{", v |-> "{"]
Close == [k |-> "}", v |-> "}"]
W(s) == [k |-> "w", v |-> s]

\* String(variables[key]) for a key the object only inherits: the text of
\* the inherited function.
InheritedText(key) == <<Txt("function Object() { [native code] }")>>

\* variables[key] ?? `{${key}}`: the own property, else the inherited
\* member, else the matched text
ReplacementFor(variables, key, matched) ==
    IF key \in DOMAIN variables THEN variables[key]
    ELSE IF key \in ObjectPrototypeKeys THEN InheritedText(key)
    ELSE matched

\* /{(\w+)}/ matches at position i
MatchesAt(prompt, i) ==
    \/ prompt[i].k = "ph"
    \/ /\ i + 2 <= Len(prompt)
       /\ prompt[i].k = "{" /\ prompt[i + 1].k = "w" /\ prompt[i + 2].k = "}"
MatchLen(prompt, i) == IF prompt[i].k = "ph" THEN 1 ELSE 3
MatchKey(prompt, i) == IF prompt[i].k = "ph" THEN prompt[i].v ELSE prompt[i + 1].v

\* replace with the g flag: the matches from left to right, none overlapping
\* another, the text between them kept
RECURSIVE ReplaceFrom(_, _, _)
ReplaceFrom(prompt, variables, i) ==
    IF i > Len(prompt) THEN <<>>
    ELSE IF MatchesAt(prompt, i)
    THEN ReplacementFor(variables, MatchKey(prompt, i),
                        SubSeq(prompt, i, i + MatchLen(prompt, i) - 1))
         \o ReplaceFrom(prompt, variables, i + MatchLen(prompt, i))
    ELSE <<prompt[i]>> \o ReplaceFrom(prompt, variables, i + 1)

\* prompt.replace(/{(\w+)}/g, (_, key) => variables[key] ?? `{${key}}`):
\* one pass over the template, substituted values are not scanned again.
interpolatePrompt(prompt, variables) == ReplaceFrom(prompt, variables, 1)

\* response.match(/\[TRANSFER:(\w+)\]/) and /\[ESCALATE:(\w+)\]/: the
\* positions of the tokens of one kind; match() takes the leftmost.
MatchPositions(s, kind) == {i \in 1..Len(s) : s[i].k = kind}
HasMatch(s, kind) == MatchPositions(s, kind) # {}
Min(S) == CHOOSE n \in S : \A m \in S : n <= m
FirstMatch(s, kind) == s[Min(MatchPositions(s, kind))].v

\* String.prototype.trim
RECURSIVE TrimLeft(_)
TrimLeft(s) == IF s # <<>> /\ Head(s).k = "sp" THEN TrimLeft(Tail(s)) ELSE s
RECURSIVE TrimRight(_)
TrimRight(s) ==
    IF s # <<>> /\ s[Len(s)].k = "sp" THEN TrimRight(SubSeq(s, 1, Len(s) - 1)) ELSE s
Trim(s) == TrimRight(TrimLeft(s))

\* message.replace(/\[TRANSFER:\w+\]|\[ESCALATE:\w+\]/g, '')
RemoveDirectives(s) == SelectSeq(s, LAMBDA it : ~IsDirective(it))

\* message.replace(...).trim(): the message forwarded to a peer agent.
cleanMessage(message) == Trim(RemoveDirectives(message))

\* `[ERROR: No connection found for ${target}]`
ErrNoConnectionThrown(target) ==
    <<[k |-> "ERROR: Failed to", v |-> target, type |-> "transfer",
       msg |-> "No connection found"]>>
ErrNoConnection(target) ==
    <<[k |-> "ERROR: No connection found for", v |-> target]>>
\* `[ERROR: Failed to ${type} to ${target} - ${errorMessage}]`
ErrFailed(type, target, errorMessage) ==
    <<[k |-> "ERROR: Failed to", v |-> target, type |-> type, msg |-> errorMessage]>>

(***************************************************************************)
(* The agents of the application and what it feeds them.                   *)
(***************************************************************************)
Agents == {"A", "B", "C"}
\* The name each provider class passes to the LLMBase constructor.
AgentName(a) == IF a = "B" THEN "gemini" ELSE "openai"

Targets == {"BILLING", "HUMAN"}
None == "<none>"
ConvIds == {"default", "stateless", "c1"}

NoConn == [kind |-> "none", ref |-> None]
LLMConn(a) == [kind |-> "llm", ref |-> a]
FnConn(f) == [kind |-> "function", ref |-> f]

\* The most tools the application registers on one agent.
MaxTools == 1

\* A later connect of the application that overrides one route of agent A.
OverrideMaps(a) ==
    CASE a = "A" -> {[HUMAN |-> FnConn("operator")]}
      [] OTHER -> {}

\* The route maps the application passes to connect().  Peers are connected
\* downstream only (A to B, B to C): a cycle of transfers recurses without
\* end in the code.
RouteMaps(a) ==
    CASE a = "A" -> {[BILLING |-> LLMConn("B"), HUMAN |-> FnConn("human")]}
      [] a = "B" -> {[BILLING |-> LLMConn("C")]}
      [] OTHER -> {}

\* The calls the application makes.  The third argument of invoke is absent,
\* a string, or an options object; the third argument of run defaults to
\* "default".
Bob == [name |-> <<Txt("Bob")>>]
Refund == <<Txt("refund")>>
Padded == <<Sp, Ph("name"), Dir("TRANSFER", "HUMAN"), Txt("refund"), Sp>>
InvokeCalls ==
    { [agent |-> "A", message |-> Padded, variables |-> Bob,
       options |-> [conversationId |-> None, stateless |-> FALSE]],
      [agent |-> "A", message |-> Refund, variables |-> <<>>,
       options |-> [conversationId |-> "c1", stateless |-> FALSE]] }
RunCalls ==
    { [agent |-> "A", message |-> Padded, variables |-> Bob, conversationId |-> "default"],
      [agent |-> "B", message |-> Refund, variables |-> <<>>, conversationId |-> "default"] }

\* The final answers each agent's model is made to give.
Ok == <<Txt("ok")>>
ModelAnswers(a) ==
    CASE a = "A" -> { Ok,
                      <<Dir("ESCALATE", "HUMAN")>>,
                      <<Dir("ESCALATE", "HUMAN"), Dir("TRANSFER", "BILLING")>>,
                      <<Dir("TRANSFER", "HUMAN"), Txt("ok"), Dir("ESCALATE", "BILLING")>> }
      [] a = "B" -> { Ok,
                      <<Txt("ok"), Dir("TRANSFER", "BILLING")>>,
                      <<Dir("ESCALATE", "HUMAN")>> }
      [] OTHER -> { Ok, <<Dir("TRANSFER", "BILLING")>> }

\* What a callback connection returns, and the messages of thrown errors.
CallbackResults == {<<Txt("a human answers")>>}
ErrorMessages == {"boom"}

VARIABLES
    connections,         \* LLMBase.connections of each agent
    systemprompt,        \* LLMBase.systemprompt of each agent
    maxContextWindow,    \* LLMBase.maxContextWindow of each agent (0: not set)
    conversationStates,  \* LLMBase.conversationStates of each agent
    nextThread,          \* the next fresh thread id (uuidv4)
    stack,               \* the chain of pending invoke/run calls, outermost first
    outcome,             \* the last settled top-level call
    dispatchLog,         \* the connections invoked during the current top-level call
    nCalls,              \* top-level calls made so far
    gen,                 \* one adapter call: its position and its locals
    stateHistory,        \* state.history of the conversation the adapter works on
    stateFlow,           \* state.conversation_flow of that conversation
    yielded,             \* the chunks the stream generator has yielded
    obs,                 \* what the provider and the tools saw of the adapter call
    manager,             \* one StreamManager, its calls and what they returned
    interp,              \* one call of interpolatePrompt: its arguments and result
    conc,                \* two calls in flight on one agent: the store they share
    alone,               \* each of the two calls made alone, with the same answers
    tools,               \* LLMBase.tools of each agent, by tool name
    twin,                \* the same call made with invoke and with run, on two stores
    resp,                \* one StreamResponse: its source and its two consumers
    usage                \* the token counts one streamed turn estimates

routingVars == <<connections, systemprompt, maxContextWindow, conversationStates,
                 nextThread, stack, outcome, dispatchLog, nCalls>>
loopVars == <<gen, stateHistory, stateFlow, yielded, obs>>
managerVars == <<manager>>
promptVars == <<interp>>
concVars == <<conc, alone>>
registryVars == <<tools>>
twinVars == <<twin>>
respVars == <<resp>>
usageVars == <<usage>>
utilVars == <<manager, interp, conc, alone, tools, twin, resp, usage>>
vars == <<connections, systemprompt, maxContextWindow, conversationStates,
          nextThread, stack, outcome, dispatchLog, nCalls,
          gen, stateHistory, stateFlow, yielded, obs, manager, interp, conc, alone,
          tools, twin, resp, usage>>

(***************************************************************************)
(* Conversation state store.                                               *)
(***************************************************************************)
FreshState(a, tid) ==
    [thread_id |-> tid, history |-> <<>>, conversation_flow |-> <<>>,
     transfers |-> <<>>, current_llm |-> AgentName(a)]

\* The store is created as {} and read with
\* this.conversationStates[conversationId].
InheritedMember(id) == [inherited |-> id]

\* this.conversationStates[id] is truthy
Truthy(cs, a, id) == id \in DOMAIN cs[a] \/ id \in ObjectPrototypeKeys
\* the value this.conversationStates[id] reads, when it is truthy
Stored(cs, a, id) ==
    IF id \in DOMAIN cs[a] THEN cs[a][id] ELSE InheritedMember(id)

\* getOrCreateState(conversationId): the store and the thread counter after it.
getOrCreateState(cs, nt, a, id) ==
    IF Truthy(cs, a, id)
    THEN [cs |-> cs, nt |-> nt]
    ELSE [cs |-> [cs EXCEPT ![a] = @ @@ (id :> FreshState(a, nt))], nt |-> nt + 1]

Message(role, content) == [role |-> role, content |-> content]

RefreshSystemPrepend(history, sys, finalSystem) ==
    IF sys = <<>> THEN history ELSE <<Message("system", finalSystem)>> \o history
\* The "system prompt is always up-to-date" block of invoke and run.
RefreshSystem(history, sys, finalSystem) ==
    IF sys = <<>> THEN history
    ELSE IF Len(history) > 0 /\ history[1].role = "system"
         THEN [history EXCEPT ![1].content = finalSystem]
         ELSE <<Message("system", finalSystem)>> \o history

pruneKeepOldest(history, window) ==
    IF window # 0 /\ Len(history) > window
    THEN SubSeq(history, 1, window)
    ELSE history
\* pruneHistoryIfNeeded: splice(0, length - maxContextWindow).
pruneHistoryIfNeeded(history, window) ==
    IF window # 0 /\ Len(history) > window
    THEN SubSeq(history, Len(history) - window + 1, Len(history))
    ELSE history

\* The messages a provider call is made with, first call of a turn, no tools.
\* OpenAIClient._invoke sends a copy of the stored history, or the prompt alone
\* when the history is empty.  GeminiClient._invokeStream drops system
\* messages, prefixes the system prompt to the first user message, and adds
\* the prompt when it marked no user message of the history.
GeminiContents(history, sys, prompt) ==
    LET merged == IF Len(history) > 0 /\ history[1].role = "system"
                  THEN history[1].content ELSE sys
        users == {i \in 1..Len(history) : history[i].role = "user"}
        kept == SelectSeq([i \in 1..Len(history) |->
                      IF history[i].role = "user" /\ merged # <<>> /\ i = Min(users)
                      THEN Message("user", merged \o <<Nl, Nl>> \o history[i].content)
                      ELSE history[i]],
                  LAMBDA m : m.role \in {"user", "assistant"})
        firstUserAdded == users # {} /\ merged # <<>>
    IN  IF ~firstUserAdded /\ prompt # <<>>
        THEN kept \o <<Message("user",
                 IF merged # <<>> THEN merged \o <<Nl, Nl>> \o prompt ELSE prompt)>>
        ELSE kept

ProviderContext(a, history, sys, prompt) ==
    IF AgentName(a) = "gemini"
    THEN GeminiContents(history, sys, prompt)
    ELSE IF Len(history) = 0 /\ prompt # <<>>
         THEN <<Message("user", prompt)>>
         ELSE history

(***************************************************************************)
(* Frames of the call chain.                                               *)
(***************************************************************************)
NoFrame ==
    [pc |-> "none", agent |-> None, method |-> None, message |-> <<>>,
     variables |-> <<>>, conv |-> None, stateless |-> FALSE, context |-> <<>>,
     answer |-> <<>>, rtype |-> None, rtarget |-> None, ret |-> <<>>,
     error |-> None, pre |-> FreshState("A", 0),
     preDefault |-> FreshState("A", 0), dispatch |-> 0, call |-> 0]

\* config.maxContextWindow the instances are created with: unset, or a
\* number of messages
ContextWindows == {0, 3}

\* The state of a conversation as an inspection call would see it.
Peek(cs, a, id) == IF id \in DOMAIN cs[a] THEN cs[a][id] ELSE FreshState(a, 0)

RoutingInit ==
    /\ connections = [a \in Agents |-> [t \in Targets |-> NoConn]]
    /\ systemprompt = [a \in Agents |-> <<>>]
    /\ \E window \in ContextWindows : maxContextWindow = [a \in Agents |-> window]
    /\ conversationStates = [a \in Agents |-> ("default" :> FreshState(a, 0))]
    /\ nextThread = 1
    /\ stack = <<>>
    /\ outcome = NoFrame
    /\ dispatchLog = <<>>
    /\ nCalls = 0

(***************************************************************************)
(* invoke and run up to their provider call.                               *)
(***************************************************************************)
\* The options argument of invoke, resolved (base.ts 234-243).
\* `!conversationId` holds of an absent id and of the empty string.
IsStateless(options) == options.stateless \/ options.conversationId \in {None, ""}

\* What a call does before it awaits this._invoke: the store, the thread
\* counter and the frame of the call.
BeginCall(cs, nt, a, method, message, variables, options, callNo) ==
    LET stateless == method = "invoke" /\ IsStateless(options)
        conv == IF stateless THEN "stateless" ELSE options.conversationId
        sys == systemprompt[a]
        finalSystem == interpolatePrompt(sys, variables)
        userPrompt == interpolatePrompt(message, variables)
        prompt == IF stateless /\ sys # <<>>
                  THEN finalSystem \o <<Nl>> \o userPrompt ELSE userPrompt
        g == getOrCreateState(cs, nt, a, conv)
        h0 == g.cs[a][conv].history
        h1 == IF stateless THEN h0
              ELSE Append(RefreshSystem(h0, sys, finalSystem), Message("user", userPrompt))
        frame == [NoFrame EXCEPT
                    !.pc = "await_invoke", !.agent = a, !.method = method,
                    !.message = message, !.variables = variables, !.conv = conv,
                    !.stateless = stateless,
                    !.context = ProviderContext(a, h1, sys, prompt),
                    !.pre = Peek(cs, a, conv),
                    !.preDefault = Peek(cs, a, "default"), !.call = callNo]
    IN  [cs |-> [g.cs EXCEPT ![a][conv].history = h1], nt |-> g.nt, frame |-> frame]

(***************************************************************************)
(* Routing.                                                                *)
(***************************************************************************)
NoRoute == [type |-> None, target |-> None]
\* The transferMatch / escalateMatch test of invoke and run.
RouteDecisionEscalateFirst(response) ==
    IF HasMatch(response, "ESCALATE")
    THEN [type |-> "escalate", target |-> FirstMatch(response, "ESCALATE")]
    ELSE IF HasMatch(response, "TRANSFER")
         THEN [type |-> "transfer", target |-> FirstMatch(response, "TRANSFER")]
         ELSE NoRoute
RouteDecision(response) ==
    IF HasMatch(response, "TRANSFER")
    THEN [type |-> "transfer", target |-> FirstMatch(response, "TRANSFER")]
    ELSE IF HasMatch(response, "ESCALATE")
         THEN [type |-> "escalate", target |-> FirstMatch(response, "ESCALATE")]
         ELSE NoRoute

\* this.connections[target]
Connection(a, target) ==
    IF target \in DOMAIN connections[a] THEN connections[a][target] ELSE NoConn

Transfer(type, target) == [type |-> type, target |-> target, originalResponse |-> <<>>]
FlowEntry(llmName, message, response, transferTarget) ==
    [llmName |-> llmName, message |-> message, response |-> response,
     transferTarget |-> transferTarget]

\* One invocation of a connection: who made it, for which message, the
\* connection, the argument it was called with, and how it settled.
Dispatch(f, conn, arg) ==
    [call |-> f.call, by |-> f.agent, from |-> f.message, type |-> f.rtype,
     target |-> f.rtarget, kind |-> conn.kind, ref |-> conn.ref, arg |-> arg,
     status |-> "pending", result |-> <<>>, answer |-> <<>>, error |-> None]

\* The argument handleTransfer calls a function connection with.
CallbackArgument(f) == f.message

\* The message handleTransfer hands to a peer agent.
ForwardedRaw(message) == message
Forwarded(message) == cleanMessage(message)

\* `response = await this.handleTransfer(...)`: what invoke and run return
\* after routing.
ResolvedAppended(answer, response) == answer \o response
Resolved(answer, response) == response

handleTransferLogFirst(cs, nt, log, f, route) ==
    LET a == f.agent
        connection == Connection(a, route.target)
        g == getOrCreateState(cs, nt, a, f.conv)
        fr == [f EXCEPT !.rtype = route.type, !.rtarget = route.target,
                        !.dispatch = IF connection.kind = "none" THEN 0 ELSE Len(log) + 1]
        logged == [g.cs EXCEPT ![a][f.conv].transfers =
                      Append(@, Transfer(route.type, route.target))]
    IN  IF connection.kind = "none"
        THEN [cs |-> logged, nt |-> g.nt, log |-> log,
              frames |-> <<[fr EXCEPT !.pc = "done",
                              !.ret = Resolved(f.answer, ErrNoConnection(route.target))]>>]
        ELSE IF connection.kind = "function"
        THEN [cs |-> logged, nt |-> g.nt,
              log |-> Append(log, Dispatch(fr, connection, CallbackArgument(f))),
              frames |-> <<[fr EXCEPT !.pc = "await_function"]>>]
        ELSE LET b == BeginCall(logged, g.nt, connection.ref, "invoke",
                                Forwarded(f.message), <<>>,
                                [conversationId |-> None, stateless |-> FALSE], f.call)
             IN  [cs |-> b.cs, nt |-> b.nt,
                  log |-> Append(log, Dispatch(fr, connection, b.frame.message)),
                  frames |-> <<[fr EXCEPT !.pc = "await_peer"], b.frame>>]

\* handleTransfer up to its await: the frames that replace the caller's frame.
handleTransfer(cs, nt, log, f, route) ==
    LET a == f.agent
        connection == Connection(a, route.target)
        g == getOrCreateState(cs, nt, a, f.conv)
        fr == [f EXCEPT !.rtype = route.type, !.rtarget = route.target,
                        !.dispatch = IF connection.kind = "none" THEN 0 ELSE Len(log) + 1]
        logged == [g.cs EXCEPT ![a][f.conv].transfers =
                      Append(@, Transfer(route.type, route.target))]
    IN  IF connection.kind = "none"
        THEN [cs |-> g.cs, nt |-> g.nt, log |-> log,
              frames |-> <<[fr EXCEPT !.pc = "done",
                              !.ret = Resolved(f.answer, ErrNoConnection(route.target))]>>]
        ELSE IF connection.kind = "function"
        THEN [cs |-> logged, nt |-> g.nt,
              log |-> Append(log, Dispatch(fr, connection, CallbackArgument(f))),
              frames |-> <<[fr EXCEPT !.pc = "await_function"]>>]
        ELSE LET b == BeginCall(logged, g.nt, connection.ref, "invoke",
                                Forwarded(f.message), <<>>,
                                [conversationId |-> None, stateless |-> FALSE], f.call)
             IN  [cs |-> b.cs, nt |-> b.nt,
                  log |-> Append(log, Dispatch(fr, connection, b.frame.message)),
                  frames |-> <<[fr EXCEPT !.pc = "await_peer"], b.frame>>]

\* invoke and run from the return of this._invoke to the next await or the
\* return of the call.
AfterProvider(cs, nt, log, f, response) ==
    LET a == f.agent
        st == cs[a][f.conv]
        recorded ==
            IF f.stateless THEN cs
            ELSE [cs EXCEPT ![a][f.conv] =
                    [st EXCEPT
                       !.history = pruneHistoryIfNeeded(
                           Append(st.history, Message("assistant", response)),
                           maxContextWindow[a]),
                       !.conversation_flow = Append(@,
                           FlowEntry(AgentName(a),
                                     interpolatePrompt(f.message, f.variables),
                                     response, None))]]
        fa == [f EXCEPT !.answer = response]
        route == RouteDecision(response)
    IN  IF route = NoRoute
        THEN [cs |-> recorded, nt |-> nt, log |-> log,
              frames |-> <<[fa EXCEPT !.pc = "done", !.ret = response]>>]
        ELSE handleTransfer(recorded, nt, log, fa, route)

\* `function:${target}`
FunctionName(target) ==
    [BILLING |-> "function:BILLING", HUMAN |-> "function:HUMAN"][target]

\* handleTransfer after its callback returned `response`.
AfterFunctionNoEntry(cs, f, response) == cs
\* a handleTransfer that also stores the resolved response in the history
AfterFunctionStored(cs, f, response) ==
    [cs EXCEPT ![f.agent][f.conv].conversation_flow =
                   Append(@, FlowEntry(FunctionName(f.rtarget), f.message, response,
                                       f.rtarget)),
               ![f.agent][f.conv].history = Append(@, Message("assistant", response))]
AfterFunction(cs, f, response) ==
    [cs EXCEPT ![f.agent][f.conv].conversation_flow =
        Append(@, FlowEntry(FunctionName(f.rtarget), f.message, response, f.rtarget))]

\* handleTransfer after the peer's invoke returned `response`: the peer's
\* default flow log is merged (getConversationFlow creates the state it reads),
\* then the routing entry is recorded.
AfterPeer(cs, nt, f, peer, response) ==
    LET g == getOrCreateState(cs, nt, peer, "default")
        merged == g.cs[peer]["default"].conversation_flow
    IN  [cs |-> [g.cs EXCEPT ![f.agent][f.conv].conversation_flow =
                    Append(@ \o merged,
                           FlowEntry(AgentName(peer), f.message, response, f.rtarget))],
         nt |-> g.nt]

\* The catch block of handleTransfer.
CaughtResponse(f, errorMessage) == ErrFailed(f.rtype, f.rtarget, errorMessage)

(***************************************************************************)
(* Actions.                                                                *)
(***************************************************************************)
Top == stack[Len(stack)]
Below == SubSeq(stack, 1, Len(stack) - 1)
Idle == stack = <<>>

\* a connect that replaces the map by the given routes
ConnectedReplace(old, routes) == routes

\* connect(routes): this.connections = { ...this.connections, ...routes }
Connected(old, routes) ==
    [t \in DOMAIN old \cup DOMAIN routes |->
        IF t \in DOMAIN routes THEN routes[t] ELSE old[t]]

\* the registry every agent is constructed with: tools = []
RegistryInit == tools = [a \in Agents |-> <<>>]

\* the tools the application registers, and the agents it registers them on
ToolNames == {"add"}
ToolAgents == {"A"}

\* addTool(tool): this.tools.push(tool)
AddTool(a, t) ==
    /\ Idle
    /\ nCalls = 0
    /\ Len(tools[a]) < MaxTools
    /\ tools' = [tools EXCEPT ![a] = Append(@, t)]
    /\ UNCHANGED <<routingVars, loopVars, managerVars, promptVars, concVars,
                   twinVars, respVars, usageVars>>

Connect(a, routes) ==
    /\ Idle
    /\ nCalls = 0
    /\ connections' = [connections EXCEPT ![a] = Connected(@, routes)]
    /\ connections' # connections
    /\ UNCHANGED <<systemprompt, maxContextWindow, conversationStates, nextThread,
                   stack, outcome, dispatchLog, nCalls>>
    /\ UNCHANGED <<loopVars, utilVars>>

StartCall(a, method, message, variables, options) ==
    /\ Idle
    /\ nCalls < MaxCalls
    /\ LET b == BeginCall(conversationStates, nextThread, a, method, message,
                          variables, options, nCalls + 1)
       IN  /\ conversationStates' = b.cs
           /\ nextThread' = b.nt
           /\ stack' = <<b.frame>>
    /\ nCalls' = nCalls + 1
    /\ dispatchLog' = <<>>
    /\ outcome' = NoFrame
    /\ UNCHANGED <<connections, systemprompt, maxContextWindow>>
    /\ UNCHANGED <<loopVars, utilVars>>

Invoke(a, message, variables, options) ==
    StartCall(a, "invoke", message, variables, options)

Run(a, message, variables, conversationId) ==
    StartCall(a, "run", message, variables,
              [conversationId |-> conversationId, stateless |-> FALSE])

\* this._invoke resolves with the provider's final answer.
ProviderRespond(a, response) ==
    /\ ~Idle
    /\ Top.pc = "await_invoke"
    /\ Top.agent = a
    /\ LET r == AfterProvider(conversationStates, nextThread, dispatchLog, Top, response)
       IN  /\ conversationStates' = r.cs
           /\ nextThread' = r.nt
           /\ dispatchLog' = r.log
           /\ stack' = Below \o r.frames
    /\ UNCHANGED <<connections, systemprompt, maxContextWindow, outcome, nCalls>>
    /\ UNCHANGED <<loopVars, utilVars>>

\* this._invoke rejects: invoke/run reject with the same error.
ProviderFail(errorMessage) ==
    /\ ~Idle
    /\ Top.pc = "await_invoke"
    /\ stack' = Below \o <<[Top EXCEPT !.pc = "threw", !.error = errorMessage]>>
    /\ UNCHANGED <<connections, systemprompt, maxContextWindow, conversationStates,
                   nextThread, outcome, dispatchLog, nCalls>>
    /\ UNCHANGED <<loopVars, utilVars>>

\* The callback of a function connection returns.
FunctionReturn(response) ==
    /\ ~Idle
    /\ Top.pc = "await_function"
    /\ conversationStates' = AfterFunction(conversationStates, Top, response)
    /\ stack' = Below \o <<[Top EXCEPT !.pc = "done",
                                       !.ret = Resolved(Top.answer, response)]>>
    /\ dispatchLog' = [dispatchLog EXCEPT ![Top.dispatch].status = "returned",
                                          ![Top.dispatch].result = response]
    /\ UNCHANGED <<connections, systemprompt, maxContextWindow, nextThread, outcome,
                   nCalls>>
    /\ UNCHANGED <<loopVars, utilVars>>

\* a callback whose error leaves handleTransfer uncaught
FunctionThrowUncaught(errorMessage) ==
    /\ ~Idle
    /\ stack[Len(stack)].pc = "await_function"
    /\ stack' = SubSeq(stack, 1, Len(stack) - 1)
                   \o <<[stack[Len(stack)] EXCEPT !.pc = "threw", !.error = errorMessage]>>
    /\ dispatchLog' = [dispatchLog EXCEPT ![stack[Len(stack)].dispatch].status = "threw",
                                          ![stack[Len(stack)].dispatch].error = errorMessage]
    /\ UNCHANGED <<connections, systemprompt, maxContextWindow, conversationStates,
                   nextThread, outcome, nCalls>>
    /\ UNCHANGED <<loopVars, utilVars>>

\* The callback of a function connection throws.
FunctionThrow(errorMessage) ==
    /\ ~Idle
    /\ Top.pc = "await_function"
    /\ stack' = Below \o <<[Top EXCEPT !.pc = "done",
                        !.ret = Resolved(Top.answer, CaughtResponse(Top, errorMessage))]>>
    /\ dispatchLog' = [dispatchLog EXCEPT ![Top.dispatch].status = "threw",
                                          ![Top.dispatch].error = errorMessage]
    /\ UNCHANGED <<connections, systemprompt, maxContextWindow, conversationStates,
                   nextThread, outcome, nCalls>>
    /\ UNCHANGED <<loopVars, utilVars>>

\* The invoke of a peer settled: the caller's handleTransfer resumes.
PeerSettled ==
    /\ Len(stack) > 1
    /\ Top.pc \in {"done", "threw"}
    /\ LET f == stack[Len(stack) - 1]
           rest == SubSeq(stack, 1, Len(stack) - 2)
       IN  IF Top.pc = "done"
           THEN LET r == AfterPeer(conversationStates, nextThread, f, Top.agent, Top.ret)
                IN  /\ conversationStates' = r.cs
                    /\ nextThread' = r.nt
                    /\ stack' = rest \o <<[f EXCEPT !.pc = "done",
                                                    !.ret = Resolved(f.answer, Top.ret)]>>
                    /\ dispatchLog' = [dispatchLog EXCEPT
                                          ![f.dispatch].status = "returned",
                                          ![f.dispatch].result = Top.ret,
                                          ![f.dispatch].answer = Top.answer]
           ELSE /\ stack' = rest \o <<[f EXCEPT !.pc = "done",
                                 !.ret = Resolved(f.answer, CaughtResponse(f, Top.error))]>>
                /\ dispatchLog' = [dispatchLog EXCEPT
                                      ![f.dispatch].status = "threw",
                                      ![f.dispatch].error = Top.error]
                /\ UNCHANGED <<conversationStates, nextThread>>
    /\ UNCHANGED <<connections, systemprompt, maxContextWindow, outcome, nCalls>>
    /\ UNCHANGED <<loopVars, utilVars>>

\* The top-level call settles: its promise resolves or rejects.
Settle ==
    /\ Len(stack) = 1
    /\ Top.pc \in {"done", "threw"}
    /\ outcome' = Top
    /\ stack' = <<>>
    /\ UNCHANGED <<connections, systemprompt, maxContextWindow, conversationStates,
                   nextThread, dispatchLog, nCalls>>
    /\ UNCHANGED <<loopVars, utilVars>>

(***************************************************************************)
(* The OpenAI adapter: _invoke and the generator of _invokeStream.         *)
(* A streamed response is a sequence of chunks; a chunk's text is a        *)
(* sequence of the lexical items below.                                    *)
(***************************************************************************)
MaxRounds == 3       \* bound: provider calls made by one adapter call
MaxChunks == 4       \* bound: text chunks in one streamed response

Opener == [k |-> "[TOOL_CALL:", v |-> "", json |-> ""]
Closer == [k |-> "]", v |-> "", json |-> ""]
Bracket == [k |-> "[", v |-> "", json |-> ""]
Word(s) == [k |-> "txt", v |-> s, json |-> ""]
\* name ":" arguments, as they stand between "[TOOL_CALL:" and "]"
Body(name, json) == [k |-> "body", v |-> name, json |-> json]

RegisteredTools == {"add", "mul"}
ToolResults == {<<Word("5")>>}
Question == <<Word("q")>>

\* the delta.content values a streamed response is made of
Chunks ==
    { <<Word("w")>>,
      <<Opener, Body("add", "flat")>>,
      <<Opener, Body("mul", "flat")>>,
      <<Opener, Body("add", "bad")>>,
      <<Opener, Body("nope", "flat")>>,
      <<Closer>>,
      <<Opener, Body("add", "flat"), Closer>>,
      <<Bracket, Word("1"), Closer>> }

\* the streamed responses the provider gives, each as its sequence of chunks
Responses ==
    { <<(<<Word("w")>>)>>,
      <<(<<Word("w")>>), (<<Opener, Body("add", "flat")>>), (<<Closer>>)>>,
      <<(<<Opener, Body("add", "flat")>>), (<<Closer>>),
        (<<Opener, Body("mul", "flat")>>), (<<Closer>>)>>,
      \* cut off inside its second token
      <<(<<Opener, Body("add", "flat")>>), (<<Closer>>),
        (<<Opener, Body("add", "flat")>>)>>,
      <<(<<Closer>>)>>,
      <<(<<Opener, Body("add", "bad")>>), (<<Closer>>),
        (<<Opener, Body("add", "flat")>>), (<<Closer>>)>>,
      <<(<<Opener, Body("add", "bad")>>), (<<Closer>>)>>,
      <<(<<Opener, Body("nope", "flat")>>), (<<Closer>>)>>,
      \* a whole token in a single delta
      <<(<<Opener, Body("add", "flat"), Closer>>)>>,
      \* plain text with a bracket in it: w [1] w
      <<(<<Word("w")>>), (<<Bracket, Word("1"), Closer>>), (<<Word("w")>>)>>,
      <<(<<Word("w")>>), (<<Opener, Body("add", "flat")>>), (<<Closer>>),
        (<<Opener, Body("mul", "flat")>>), (<<Closer>>)>> }

IsPrefix(p, r) == Len(p) <= Len(r) /\ SubSeq(r, 1, Len(p)) = p

ToolCall(id, name) == [id |-> id, name |-> name]
\* message.tool_calls of a non-streamed response; <<>> stands for an absent field
Completions ==
    { [content |-> <<Word("w")>>, tool_calls |-> <<>>],
      [content |-> <<>>, tool_calls |-> <<ToolCall("call_1", "add")>>],
      [content |-> <<>>, tool_calls |-> <<ToolCall("call_1", "add"), ToolCall("call_2", "mul")>>],
      [content |-> <<>>, tool_calls |-> <<ToolCall("call_1", "nope")>>] }

\* String.prototype.includes for the three needles the generator looks for
IncludesBracket(text) == \E i \in 1..Len(text) : text[i].k \in {"[TOOL_CALL:", "["}
IncludesCloser(text) == \E i \in 1..Len(text) : text[i].k = "]"
IncludesOpener(text) == \E i \in 1..Len(text) : text[i].k = "[TOOL_CALL:"

HasColon(item) == item.k \in {"[TOOL_CALL:", "body"}
Max(S) == CHOOSE n \in S : \A m \in S : m <= n

\* the item that ends ([^:]+) for a match starting at buf[i]; 0 when there is none
NameEnd(buf, i) ==
    LET after == {m \in (i + 1)..Len(buf) : HasColon(buf[m])}
    IN  IF after = {} THEN 0 ELSE Min(after)

\* /\[TOOL_CALL:([^:]+):(\{[^}]+\})\]/ matching at buf[i]
StrictAt(buf, i) ==
    /\ buf[i].k = "[TOOL_CALL:"
    /\ LET m == NameEnd(buf, i)
       IN  /\ m # 0
           /\ buf[m].k = "body"
           /\ buf[m].json \in {"flat", "bad"}
           /\ m + 1 <= Len(buf)
           /\ buf[m + 1].k = "]"

\* /\[TOOL_CALL:([^:]+):(.+)\]/ matching at buf[i]: (.+) runs to the last "]"
FlexibleAt(buf, i) ==
    /\ buf[i].k = "[TOOL_CALL:"
    /\ LET m == NameEnd(buf, i)
       IN  /\ m # 0
           /\ buf[m].k = "body"
           /\ \E c \in (m + 1)..Len(buf) : buf[c].k = "]"

MatchedName(buf, i) ==
    IF NameEnd(buf, i) = i + 1 THEN buf[i + 1].v ELSE "garbled"

ParseToolCallAnyArgs(buf) ==
    LET strict == {i \in 1..Len(buf) : StrictAt(buf, i)}
    IN  IF strict # {}
        THEN <<ToolCall(MatchedName(buf, Min(strict)), MatchedName(buf, Min(strict)))>>
        ELSE <<>>
\* lines 213-238: the tool calls one completed buffer contributes
ParseToolCall(buf) ==
    LET strict == {i \in 1..Len(buf) : StrictAt(buf, i)}
        flexible == {i \in 1..Len(buf) : FlexibleAt(buf, i)}
    IN  IF strict # {}
        THEN LET i == Min(strict)
                 m == NameEnd(buf, i)
             IN  IF buf[m].json = "flat"
                 THEN <<ToolCall(MatchedName(buf, i), MatchedName(buf, i))>> ELSE <<>>
        ELSE IF flexible # {}
        THEN LET i == Min(flexible)
                 m == NameEnd(buf, i)
                 last == Max({c \in (m + 1)..Len(buf) : buf[c].k = "]"})
             IN  IF last = m + 1 /\ buf[m].json \in {"flat", "nested"}
                 THEN <<ToolCall(MatchedName(buf, i), MatchedName(buf, i))>> ELSE <<>>
        ELSE <<>>

\* StreamManager.processChunk and complete, and the two chunks of a tool call
TextChunkAccumulatedDelta(content, delta) ==
    [type |-> "text", content |-> content, delta |-> content, isComplete |-> FALSE]
TextChunk(content, delta) ==
    [type |-> "text", content |-> content, delta |-> delta, isComplete |-> FALSE]
FinalChunk(content) ==
    [type |-> "text", content |-> content, delta |-> <<>>, isComplete |-> TRUE]
ToolStartChunk ==
    [type |-> "tool_call_start", content |-> <<>>, delta |-> <<>>, isComplete |-> FALSE]
ToolResultChunk(toolResponse) ==
    [type |-> "tool_result", content |-> toolResponse, delta |-> <<>>,
     isComplete |-> FALSE]

ToolInstruction == <<Word("<tool instruction>")>>

\* lines 118-143
MergedSystemPrompt(history, sys) ==
    LET current == IF Len(history) > 0 /\ history[1].role = "system"
                   THEN history[1].content ELSE sys
    IN  IF RegisteredTools # {}
        THEN IF current # <<>> THEN current \o <<Nl, Nl>> \o ToolInstruction
             ELSE ToolInstruction
        ELSE current

\* lines 145-160: the first user message and every assistant message
RECURSIVE StreamMessages(_, _)
StreamMessages(history, firstUserAdded) ==
    IF history = <<>> THEN <<>>
    ELSE LET msg == Head(history)
         IN  IF msg.role = "user" /\ ~firstUserAdded
             THEN <<Message("user", msg.content)>> \o StreamMessages(Tail(history), TRUE)
             ELSE IF msg.role = "assistant"
             THEN <<Message("assistant", msg.content)>>
                      \o StreamMessages(Tail(history), firstUserAdded)
             ELSE StreamMessages(Tail(history), firstUserAdded)

StreamContext(history, sys, prompt) ==
    LET currentHistory == IF Len(history) = 0 /\ prompt # <<>>
                          THEN <<Message("user", prompt)>> ELSE history
        merged == MergedSystemPrompt(history, sys)
    IN  (IF merged # <<>> THEN <<Message("system", merged)>> ELSE <<>>)
            \o StreamMessages(currentHistory, FALSE)

AssistantToolMessage(content, calls) ==
    [role |-> "assistant", content |-> content, tool_calls |-> calls]
ToolMessage(id, content) == [role |-> "tool", content |-> content, tool_call_id |-> id]
ToolResultText(name, toolResponse) ==
    <<Word("Tool result for"), Word(name)>> \o toolResponse

NoGen ==
    [pc |-> "idle", mode |-> None,
     agent |-> None,                \* the client: "A" is OpenAI, "B" is Gemini
     currentContents |-> <<>>,      \* currentHistory / currentContents
     pendingContents |-> <<>>,      \* the messages of the provider call in flight
     accumulatedText |-> <<>>, toolCallBuffer |-> <<>>, inToolCall |-> FALSE,
     hasToolCalls |-> FALSE, toolCalls |-> <<>>,
     toolIndex |-> 0,               \* the for-loop over toolCalls
     inflight |-> {},               \* executors Promise.all still waits for
     toolResults |-> <<>>,
     assistantMsg |-> Message("assistant", <<>>),
     fullContent |-> <<>>,          \* StreamManager.fullContent
     error |-> None,                \* what the adapter call rejected with
     failed |-> 0,                  \* the tool call whose executor rejected
     result |-> <<>>]

NoObs ==
    [rounds |-> 0,                  \* provider calls made
     nChunks |-> 0,                 \* chunks of the response being streamed
     chunks |-> <<>>,               \* those chunks
     responseText |-> <<>>,         \* the response being streamed, so far
     plainResponses |-> 0,          \* completed responses without a tool call
     callsAfterPlain |-> 0,         \* provider calls made after such a response
     executions |-> <<>>,           \* tool.execute calls, in order
     events |-> <<>>]               \* callbacks and executor starts and ends, in order

LoopInit ==
    /\ gen = NoGen
    /\ stateHistory = <<>>
    /\ stateFlow = <<>>
    /\ yielded = <<>>
    /\ obs = NoObs

(***************************************************************************)
(* StreamManager (utils/streaming.ts).                                     *)
(***************************************************************************)
MaxManagerCalls == 4
\* the deltas processChunk is called with; '' among them
Deltas == {<<>>, <<Word("a")>>, <<Word("b")>>}

NoManager ==
    [chunks |-> <<>>,               \* StreamManager.chunks
     fullContent |-> <<>>,          \* StreamManager.fullContent
     isComplete |-> FALSE,          \* StreamManager.isComplete
     deltas |-> <<>>,               \* the arguments of the processChunk calls
     returned |-> <<>>,             \* what the calls returned, in order
     onChunk |-> <<>>,              \* the chunks options.onChunk was called with
     onComplete |-> <<>>]           \* the strings options.onComplete was called with

ManagerInit == manager = NoManager

\* StreamManager.processChunk(delta)
processChunkDeltaAsContent(m, delta) ==
    LET chunk == [content |-> delta, delta |-> delta, isComplete |-> FALSE]
    IN  [m EXCEPT !.fullContent = @ \o delta,
                  !.chunks = Append(@, chunk),
                  !.returned = Append(@, chunk),
                  !.deltas = Append(@, delta),
                  !.onChunk = IF delta # <<>> THEN Append(@, chunk) ELSE @]
processChunk(m, delta) ==
    LET full == IF delta # <<>> THEN m.fullContent \o delta ELSE m.fullContent
        chunk == [content |-> full, delta |-> delta, isComplete |-> FALSE]
    IN  [m EXCEPT !.fullContent = full,
                  !.chunks = Append(@, chunk),
                  !.returned = Append(@, chunk),
                  !.deltas = Append(@, delta),
                  !.onChunk = IF delta # <<>> THEN Append(@, chunk) ELSE @]

\* StreamManager.complete()
complete(m) ==
    LET finalChunk == [content |-> m.fullContent, delta |-> <<>>, isComplete |-> TRUE]
    IN  [m EXCEPT !.isComplete = TRUE,
                  !.chunks = Append(@, finalChunk),
                  !.returned = Append(@, finalChunk),
                  !.onComplete = Append(@, m.fullContent)]

getFullContent(m) == m.fullContent

ProcessChunk(delta) ==
    /\ ~manager.isComplete
    /\ Len(manager.returned) < MaxManagerCalls
    /\ manager' = processChunk(manager, delta)
    /\ UNCHANGED <<routingVars, loopVars, promptVars, concVars, registryVars, twinVars, respVars, usageVars>>

Complete ==
    /\ ~manager.isComplete
    /\ manager' = complete(manager)
    /\ UNCHANGED <<routingVars, loopVars, promptVars, concVars, registryVars, twinVars, respVars, usageVars>>

ManagerNext ==
    \/ \E delta \in Deltas : ProcessChunk(delta)
    \/ Complete

(***************************************************************************)
(* Two calls in flight on one agent.  A call runs from one await to the    *)
(* next without interruption; at an await the other call may run.  Every   *)
(* call is also made alone, on a store of its own, with the same answers.  *)
(***************************************************************************)
Procs == {1, 2}
\* the two calls: different conversation ids of agent A
ConcurrentCalls ==
    << [agent |-> "A", method |-> "invoke", message |-> Refund, variables |-> <<>>,
        options |-> [conversationId |-> "c1", stateless |-> FALSE]],
       [agent |-> "A", method |-> "run", message |-> Padded, variables |-> Bob,
        options |-> [conversationId |-> "default", stateless |-> FALSE]] >>
ConvOf(p) == ConcurrentCalls[p].options.conversationId

\* A store with the chain of pending calls of one top-level call.
World(cs, nt, stk, log) == [cs |-> cs, nt |-> nt, stack |-> stk, log |-> log]
FreshWorld ==
    World([a \in Agents |-> ("default" :> FreshState(a, 0))], 1, <<>>, <<>>)
TopOf(w) == w.stack[Len(w.stack)]
BelowOf(w) == SubSeq(w.stack, 1, Len(w.stack) - 1)
Awaits(w, pc) == w.stack # <<>> /\ TopOf(w).pc = pc

\* invoke/run up to the await of this._invoke
Begun(w, p) ==
    LET c == ConcurrentCalls[p]
        b == BeginCall(w.cs, w.nt, c.agent, c.method, c.message, c.variables,
                       c.options, p)
    IN  World(b.cs, b.nt, <<b.frame>>, <<>>)

\* One tool round inside this._invoke: the adapter executes the tool, pushes
\* the assistant message with the call and the tool message onto the
\* conversation's history, and extends the messages of its next provider
\* call (openai.ts 62-92, gemini.ts 231-283).
ToolRoundCall == ToolCall("call_1", "add")
ToolRoundText == <<Opener, Body("add", "flat"), Closer>>
ToolRoundHistory(a, toolResponse) ==
    IF AgentName(a) = "gemini"
    THEN <<AssistantToolMessage(ToolRoundText, <<ToolRoundCall>>),
           ToolMessage(ToolRoundCall.name, toolResponse)>>
    ELSE <<AssistantToolMessage(<<>>, <<ToolRoundCall>>),
           ToolMessage(ToolRoundCall.id, toolResponse)>>
ToolRoundContext(a, toolResponse) ==
    IF AgentName(a) = "gemini"
    THEN <<Message("assistant", ToolRoundText),
           Message("user", ToolResultText(ToolRoundCall.name, toolResponse))>>
    ELSE ToolRoundHistory(a, toolResponse)
HadToolRound(f) ==
    \E i \in 1..Len(f.context) : \E r \in ToolResults :
        f.context[i] = ToolRoundContext(f.agent, r)[2]
ToolRound(w, toolResponse) ==
    LET f == TopOf(w)
    IN  World([w.cs EXCEPT ![f.agent][f.conv].history =
                   @ \o ToolRoundHistory(f.agent, toolResponse)],
              w.nt,
              BelowOf(w) \o <<[f EXCEPT !.context =
                                  @ \o ToolRoundContext(f.agent, toolResponse)]>>,
              w.log)

\* this._invoke resolves
Responded(w, response) ==
    LET r == AfterProvider(w.cs, w.nt, w.log, TopOf(w), response)
    IN  World(r.cs, r.nt, BelowOf(w) \o r.frames, r.log)
\* the callback of a function connection returns
FunctionReturned(w, response) ==
    LET f == TopOf(w)
    IN  World(AfterFunction(w.cs, f, response), w.nt,
              BelowOf(w) \o <<[f EXCEPT !.pc = "done",
                                        !.ret = Resolved(f.answer, response)]>>,
              w.log)
\* the invoke of a peer returned: handleTransfer resumes
PeerReturns(w) == Len(w.stack) > 1 /\ TopOf(w).pc = "done"
PeerReturned(w) ==
    LET peer == TopOf(w)
        f == w.stack[Len(w.stack) - 1]
        r == AfterPeer(w.cs, w.nt, f, peer.agent, peer.ret)
    IN  World(r.cs, r.nt,
              SubSeq(w.stack, 1, Len(w.stack) - 2)
                  \o <<[f EXCEPT !.pc = "done", !.ret = Resolved(f.answer, peer.ret)]>>,
              w.log)

NoCall == [began |-> FALSE, stack |-> <<>>, log |-> <<>>]
ConcurrentInit ==
    /\ conc = [cs |-> FreshWorld.cs, nt |-> 1, calls |-> [p \in Procs |-> NoCall]]
    /\ alone = [p \in Procs |-> FreshWorld]

\* the shared store as call p sees it
Shared(p) == World(conc.cs, conc.nt, conc.calls[p].stack, conc.calls[p].log)
Stepped(p, w) ==
    [conc EXCEPT !.cs = w.cs, !.nt = w.nt,
                 !.calls[p] = [began |-> TRUE, stack |-> w.stack, log |-> w.log]]

ConcConnect(a, routes) ==
    /\ \A p \in Procs : ~conc.calls[p].began
    /\ Connect(a, routes)

ConcBegin(p) ==
    /\ ~conc.calls[p].began
    /\ conc' = Stepped(p, Begun(Shared(p), p))
    /\ alone' = [alone EXCEPT ![p] = Begun(@, p)]
    /\ UNCHANGED <<routingVars, loopVars, managerVars, promptVars, registryVars, twinVars, respVars, usageVars>>

ConcToolRound(p, toolResponse) ==
    /\ Awaits(Shared(p), "await_invoke")
    /\ ~HadToolRound(TopOf(Shared(p)))
    /\ conc' = Stepped(p, ToolRound(Shared(p), toolResponse))
    /\ alone' = [alone EXCEPT ![p] = IF Awaits(@, "await_invoke")
                                     THEN ToolRound(@, toolResponse) ELSE @]
    /\ UNCHANGED <<routingVars, loopVars, managerVars, promptVars, registryVars, twinVars, respVars, usageVars>>

ConcRespond(p, response) ==
    /\ Awaits(Shared(p), "await_invoke")
    /\ response \in ModelAnswers(TopOf(Shared(p)).agent)
    /\ conc' = Stepped(p, Responded(Shared(p), response))
    /\ alone' = [alone EXCEPT ![p] = IF Awaits(@, "await_invoke")
                                     THEN Responded(@, response) ELSE @]
    /\ UNCHANGED <<routingVars, loopVars, managerVars, promptVars, registryVars, twinVars, respVars, usageVars>>

ConcFunctionReturn(p, response) ==
    /\ Awaits(Shared(p), "await_function")
    /\ conc' = Stepped(p, FunctionReturned(Shared(p), response))
    /\ alone' = [alone EXCEPT ![p] = IF Awaits(@, "await_function")
                                     THEN FunctionReturned(@, response) ELSE @]
    /\ UNCHANGED <<routingVars, loopVars, managerVars, promptVars, registryVars, twinVars, respVars, usageVars>>

ConcPeerSettled(p) ==
    /\ PeerReturns(Shared(p))
    /\ conc' = Stepped(p, PeerReturned(Shared(p)))
    /\ alone' = [alone EXCEPT ![p] = IF PeerReturns(@) THEN PeerReturned(@) ELSE @]
    /\ UNCHANGED <<routingVars, loopVars, managerVars, promptVars, registryVars, twinVars, respVars, usageVars>>

ConcurrentNext ==
    \/ \E a \in Agents : \E routes \in RouteMaps(a) : ConcConnect(a, routes)
    \/ \E p \in Procs : ConcBegin(p)
    \/ \E p \in Procs : \E r \in ToolResults : ConcToolRound(p, r)
    \/ \E p \in Procs : \E a \in Agents : \E r \in ModelAnswers(a) : ConcRespond(p, r)
    \/ \E p \in Procs : \E r \in CallbackResults : ConcFunctionReturn(p, r)
    \/ \E p \in Procs : ConcPeerSettled(p)

(***************************************************************************)
(* One call made twice: with invoke on one store and with run on another,  *)
(* with the same arguments and the same answers of the models, tools and   *)
(* callbacks.  No memory is configured and run is not asked to stream.     *)
(***************************************************************************)
MaxTurns == 2
Methods == {"invoke", "run"}
\* the conversation ids the application passes as third argument
TwinIds == {"c1", ""}
TwinCalls ==
    { [message |-> Padded, variables |-> Bob],
      [message |-> Refund, variables |-> <<>>] }

NoTwin ==
    [w |-> [m \in Methods |-> FreshWorld], ret |-> [m \in Methods |-> <<>>],
     turns |-> 0, id |-> None]
TwinInit == twin = NoTwin

TwinIdle == \A m \in Methods : twin.w[m].stack = <<>>
\* the step taken by each of the two calls that stands at it
Both(Enabled(_), Step(_)) ==
    [m \in Methods |-> IF Enabled(twin.w[m]) THEN Step(twin.w[m]) ELSE twin.w[m]]
TwinStepped(w) ==
    /\ twin' = [twin EXCEPT !.w = w]
    /\ UNCHANGED <<routingVars, loopVars, managerVars, promptVars, concVars,
                   registryVars, respVars, usageVars>>

TwinConnect(a, routes) ==
    /\ twin.turns = 0
    /\ Connect(a, routes)

\* invoke(message, variables, id) and run(message, {variables}, id)
TwinBegin(c, id) ==
    /\ TwinIdle
    /\ twin.turns < MaxTurns
    /\ twin' = [twin EXCEPT
           !.w = [m \in Methods |->
                    LET b == BeginCall(twin.w[m].cs, twin.w[m].nt, "A", m, c.message,
                                       c.variables,
                                       [conversationId |-> id, stateless |-> FALSE],
                                       twin.turns + 1)
                    IN  World(b.cs, b.nt, <<b.frame>>, <<>>)],
           !.ret = [m \in Methods |-> <<>>],
           !.turns = @ + 1,
           !.id = id]
    /\ UNCHANGED <<routingVars, loopVars, managerVars, promptVars, concVars,
                   registryVars, respVars, usageVars>>

TwinToolRound(toolResponse) ==
    /\ Awaits(twin.w["run"], "await_invoke")
    /\ ~HadToolRound(TopOf(twin.w["run"]))
    /\ TwinStepped(Both(LAMBDA w : Awaits(w, "await_invoke"),
                        LAMBDA w : ToolRound(w, toolResponse)))

TwinRespond(response) ==
    /\ Awaits(twin.w["run"], "await_invoke")
    /\ response \in ModelAnswers(TopOf(twin.w["run"]).agent)
    /\ TwinStepped(Both(LAMBDA w : Awaits(w, "await_invoke"),
                        LAMBDA w : Responded(w, response)))

TwinFunctionReturn(response) ==
    /\ Awaits(twin.w["run"], "await_function")
    /\ TwinStepped(Both(LAMBDA w : Awaits(w, "await_function"),
                        LAMBDA w : FunctionReturned(w, response)))

TwinPeerSettled ==
    /\ PeerReturns(twin.w["run"])
    /\ TwinStepped(Both(PeerReturns, PeerReturned))

\* both calls return to the application
TwinReturns(w) == Len(w.stack) = 1 /\ TopOf(w).pc = "done"
TwinSettle ==
    /\ TwinReturns(twin.w["run"])
    /\ twin' = [twin EXCEPT
           !.ret = [m \in Methods |->
                      IF TwinReturns(twin.w[m]) THEN TopOf(twin.w[m]).ret ELSE <<>>],
           !.w = [m \in Methods |-> [twin.w[m] EXCEPT !.stack = <<>>, !.log = <<>>]]]
    /\ UNCHANGED <<routingVars, loopVars, managerVars, promptVars, concVars,
                   registryVars, respVars, usageVars>>

(***************************************************************************)
(* createStreamResponse (utils/streaming.ts 206-225): two iterators made   *)
(* by createStreamIterator over the one stream the promise resolves to,    *)
(* the generator of _invokeStream.  A chunk the generator yields goes to   *)
(* the iterator whose request it answers.                                  *)
(***************************************************************************)
MaxSource == 3
\* the text deltas of the underlying response
SourceDeltas == {<<Word("a")>>, <<Word("b")>>}
SourceTexts == UNION {[1..n -> SourceDeltas] : n \in 0..MaxSource}
\* `stream` and the loop behind `fullContent`
Consumers == {"stream", "fullContent"}

RECURSIVE Fed(_, _)
Fed(m, ds) == IF ds = <<>> THEN m ELSE Fed(processChunk(m, ds[1]), Tail(ds))
\* the chunks the generator of _invokeStream yields for a response
SourceChunks(ds) == complete(Fed(NoManager, ds)).returned

\* extractDelta(chunk) of a StreamChunk: chunk.delta if it is not empty,
\* else chunk.content if it is not empty, else ''
extractDelta(chunk) ==
    IF chunk.delta # <<>> THEN chunk.delta
    ELSE IF chunk.content # <<>> THEN chunk.content
    ELSE <<>>

NoResp ==
    [pc |-> "none", deltas |-> <<>>, source |-> <<>>,
     iter |-> [c \in Consumers |-> [manager |-> NoManager, done |-> FALSE]],
     fullContent |-> <<>>]
ResponseInit == resp = NoResp

\* stream(message) returns createStreamResponse(streamPromise, options)
CreateStreamResponse(ds) ==
    /\ resp.pc = "none"
    /\ resp' = [resp EXCEPT !.pc = "created", !.deltas = ds, !.source = SourceChunks(ds)]
    /\ UNCHANGED <<routingVars, loopVars, managerVars, promptVars, concVars,
                   registryVars, twinVars, usageVars>>

\* one turn of `for await (const chunk of stream)` in the iterator of c
IteratorPull(c) ==
    /\ resp.pc = "created"
    /\ ~resp.iter[c].done
    /\ resp.source # <<>>
    /\ LET delta == extractDelta(Head(resp.source))
       IN  resp' = [resp EXCEPT
                      !.source = Tail(@),
                      !.iter[c].manager = IF delta # <<>> THEN processChunk(@, delta)
                                          ELSE @]
    /\ UNCHANGED <<routingVars, loopVars, managerVars, promptVars, concVars,
                   registryVars, twinVars, usageVars>>

\* the stream is exhausted: the iterator of c yields manager.complete(); the
\* loop behind fullContent takes its content and returns it
IteratorEnd(c) ==
    /\ resp.pc = "created"
    /\ ~resp.iter[c].done
    /\ resp.source = <<>>
    /\ resp' = [resp EXCEPT
           !.iter[c].manager = complete(@),
           !.iter[c].done = TRUE,
           !.fullContent = IF c = "fullContent" THEN resp.iter[c].manager.fullContent
                           ELSE @]
    /\ UNCHANGED <<routingVars, loopVars, managerVars, promptVars, concVars,
                   registryVars, twinVars, usageVars>>

ResponseNext ==
    \/ \E ds \in SourceTexts : CreateStreamResponse(ds)
    \/ \E c \in Consumers : IteratorPull(c)
    \/ \E c \in Consumers : IteratorEnd(c)

(***************************************************************************)
(* The token estimate of a streamed turn (openai.ts 163-365, gemini.ts     *)
(* 107-312): texts are taken by their length in characters.                *)
(***************************************************************************)
MaxDeltas == 4
MaxDeltaLength == 5
\* JSON.stringify(context).length of the contexts a turn starts with
ContextLengths == {26, 57}
\* Math.ceil(n / 4)
CeilQuarter(n) == (n + 3) \div 4
\* outputTokens += Math.ceil(chunkText.length / 4)
AddedEstimate(outputTokens, n) == outputTokens + CeilQuarter(n)

NoUsage ==
    [pc |-> "idle", inputTokens |-> 0, outputTokens |-> 0, context |-> 0,
     deltas |-> <<>>, recorded |-> <<>>]
UsageInit == usage = NoUsage
RECURSIVE Sum(_)
Sum(ns) == IF ns = <<>> THEN 0 ELSE ns[1] + Sum(Tail(ns))

\* inputTokens = Math.ceil(JSON.stringify(currentHistory).length / 4)
EstimateInput(n) ==
    /\ usage.pc = "idle"
    /\ usage' = [usage EXCEPT !.pc = "streaming", !.context = n,
                              !.inputTokens = CeilQuarter(n)]
    /\ UNCHANGED <<routingVars, loopVars, managerVars, promptVars, concVars,
                   registryVars, twinVars, respVars>>

\* one chunk of the provider's stream, of n characters; an empty chunk is
\* passed over
EstimateChunk(n) ==
    /\ usage.pc = "streaming"
    /\ Len(usage.deltas) < MaxDeltas
    /\ usage' = [usage EXCEPT
           !.deltas = Append(@, n),
           !.outputTokens = IF n > 0 THEN AddedEstimate(@, n) ELSE @]
    /\ UNCHANGED <<routingVars, loopVars, managerVars, promptVars, concVars,
                   registryVars, twinVars, respVars>>

\* recordTokenUsage({inputTokens, outputTokens, totalTokens}) at the end of
\* the turn
RecordUsage ==
    /\ usage.pc = "streaming"
    /\ usage' = [usage EXCEPT
           !.pc = "done",
           !.recorded = <<[inputTokens |-> usage.inputTokens,
                           outputTokens |-> usage.outputTokens,
                           totalTokens |-> usage.inputTokens + usage.outputTokens]>>]
    /\ UNCHANGED <<routingVars, loopVars, managerVars, promptVars, concVars,
                   registryVars, twinVars, respVars>>

UsageNext ==
    \/ \E n \in ContextLengths : EstimateInput(n)
    \/ \E n \in 0..MaxDeltaLength : EstimateChunk(n)
    \/ RecordUsage

TwinNext ==
    \/ \E a \in Agents : \E routes \in RouteMaps(a) : TwinConnect(a, routes)
    \/ \E c \in TwinCalls : \E id \in TwinIds : TwinBegin(c, id)
    \/ \E r \in ToolResults : TwinToolRound(r)
    \/ \E a \in Agents : \E r \in ModelAnswers(a) : TwinRespond(r)
    \/ \E r \in CallbackResults : TwinFunctionReturn(r)
    \/ TwinPeerSettled
    \/ TwinSettle

(***************************************************************************)
(* interpolatePrompt (utils/prompt.ts) applied to templates and variables. *)
(***************************************************************************)
MaxPieces == 3
\* what the templates are put together from
Pieces ==
    { <<Open>>, <<Close>>, <<W("a")>>, <<Sp>>,
      <<Open, W("a"), Close>>, <<Open, W("b"), Close>>,
      <<Open, W("constructor"), Close>> }
PieceSeqs == UNION {[1..n -> Pieces] : n \in 0..MaxPieces}
\* W(s) is a maximal run of word characters: no two of them are adjacent
Canonical(t) == \A i \in 1..(Len(t) - 1) : ~(t[i].k = "w" /\ t[i + 1].k = "w")
Templates == {t \in {Flatten(ps) : ps \in PieceSeqs} : Canonical(t)}
\* the variables objects: {}, one with an empty value, one whose value holds
\* a placeholder of another key, one with a key that Object.prototype has too
VariableMaps ==
    { <<>>,
      [a |-> <<>>],
      [a |-> <<Open, W("b"), Close>>, b |-> <<W("x")>>],
      [constructor |-> <<W("c")>>] }

NoInterp == [pc |-> "idle", prompt |-> <<>>, variables |-> <<>>, result |-> <<>>]
PromptIdle == interp = NoInterp
PromptGiven ==
    \E t \in Templates : \E m \in VariableMaps :
        interp = [NoInterp EXCEPT !.pc = "given", !.prompt = t, !.variables = m]

InterpolatePrompt ==
    /\ interp.pc = "given"
    /\ interp' = [interp EXCEPT
                    !.pc = "returned",
                    !.result = interpolatePrompt(interp.prompt, interp.variables)]
    /\ UNCHANGED <<routingVars, loopVars, managerVars, concVars, registryVars, twinVars, respVars, usageVars>>

PromptNext == InterpolatePrompt

Init == RoutingInit /\ LoopInit /\ ManagerInit /\ PromptIdle /\ ConcurrentInit /\ RegistryInit /\ TwinInit /\ ResponseInit /\ UsageInit

\* the arguments of the call are drawn here
PromptInit == RoutingInit /\ LoopInit /\ ManagerInit /\ PromptGiven /\ ConcurrentInit /\ RegistryInit /\ TwinInit /\ ResponseInit /\ UsageInit
PromptSpec == PromptInit /\ [][PromptNext]_vars

ConcurrentSpec == Init /\ [][ConcurrentNext]_vars

\* A turn of the adapter on a conversation that is new or already holds an
\* earlier exchange.
EarlierHistories ==
    { <<>>,
      <<Message("user", <<Word("earlier")>>), Message("assistant", <<Word("w")>>)>> }
TurnInit ==
    /\ RoutingInit /\ ManagerInit /\ PromptIdle /\ ConcurrentInit /\ RegistryInit /\ TwinInit /\ ResponseInit /\ UsageInit
    /\ gen = NoGen
    /\ stateHistory \in EarlierHistories
    /\ stateFlow = <<>>
    /\ yielded = <<>>
    /\ obs = NoObs

ManagerSpec == Init /\ [][ManagerNext]_vars

(***************************************************************************)
(* Actions of the adapter call.                                            *)
(***************************************************************************)
\* the provider is called: openai.chat.completions.create
Called(o) ==
    [o EXCEPT !.rounds = @ + 1,
              !.callsAfterPlain = IF o.plainResponses > 0 THEN @ + 1 ELSE @,
              !.nChunks = 0,
              !.chunks = <<>>,
              !.responseText = <<>>]

\* [TOOL_CALL:<name>:<json>] tokens of a response text
TokenCount(text) ==
    Cardinality({i \in 1..(Len(text) - 2) :
                    /\ text[i].k = "[TOOL_CALL:"
                    /\ text[i + 1].k = "body"
                    /\ text[i + 2].k = "]"})

Received(o, plain) ==
    [o EXCEPT !.plainResponses = IF plain THEN @ + 1 ELSE @]

Ev(kind, name) == [ev |-> kind, name |-> name]

\* run hands onFunctionCall and onFunctionCallFinish to _invokeStream only
\* (base.ts 352); _invoke of either client gets none (gemini.ts 21)
CallbacksPassed(g) == g.mode = "stream"

\* gemini.ts 23-39: _invoke rebuilds its result from the chunks' content
RECURSIVE GeminiResult(_, _, _)
GeminiResult(chunks, result, last) ==
    IF chunks = <<>> THEN result
    ELSE LET content == Head(chunks).content
         IN  IF content = <<>> THEN GeminiResult(Tail(chunks), result, last)
             ELSE GeminiResult(Tail(chunks),
                               IF IsPrefix(last, content)
                               THEN result \o SubSeq(content, Len(last) + 1, Len(content))
                               ELSE result \o content,
                               content)

\* run after the adapter returned (base.ts 378-408): the assistant message,
\* pruning, the flow entry
TurnHistory(history, response, a) ==
    pruneHistoryIfNeeded(Append(history, Message("assistant", response)),
                         maxContextWindow[a])
TurnFlow(flow, response, a) ==
    Append(flow, FlowEntry(AgentName(a), Question, response, None))

\* run pushes the user message and calls _invoke or _invokeStream, which
\* makes the first provider call
BeginTurn(a, mode) ==
    /\ gen.pc = "idle"
    /\ LET history == Append(stateHistory, Message("user", Question))
           context == IF AgentName(a) = "gemini"
                      THEN GeminiContents(history,
                                          MergedSystemPrompt(history, <<>>), Question)
                      ELSE IF mode = "stream"
                      THEN StreamContext(history, <<>>, Question)
                      ELSE history
       IN  /\ stateHistory' = history
           /\ gen' = [NoGen EXCEPT
                        !.pc = IF mode = "stream" \/ AgentName(a) = "gemini"
                               THEN "streaming" ELSE "await_create",
                        !.mode = mode,
                        !.agent = a,
                        !.currentContents = context,
                        !.pendingContents = context]
    /\ obs' = Called(NoObs)
    /\ yielded' = <<>>
    /\ UNCHANGED stateFlow
    /\ UNCHANGED <<routingVars, utilVars>>

\* lines 263-291 for toolCalls[i]: onFunctionCall, the start chunk, the
\* lookup, tool.execute
StartToolAnyName(g, i) == [g EXCEPT !.pc = "await_tool", !.toolIndex = i]
StartTool(g, i) ==
    IF g.toolCalls[i].name \in RegisteredTools
    THEN [g EXCEPT !.pc = "await_tool", !.toolIndex = i]
    ELSE [g EXCEPT !.pc = "threw", !.toolIndex = i, !.error = "Tool not found"]

Executed(o, g, i) ==
    LET name == g.toolCalls[i].name
        o1 == IF CallbacksPassed(g)
              THEN [o EXCEPT !.events = Append(@, Ev("onFunctionCall", name))]
              ELSE o
    IN  IF name \in RegisteredTools
        THEN [o1 EXCEPT !.executions = Append(@, name),
                        !.events = Append(@, Ev("execute", name))]
        ELSE o1

\* lines 191-253: one chunk with text arrives
StreamChunk(chunkText) ==
    /\ gen.pc = "streaming"
    /\ obs.nChunks < MaxChunks
    /\ \E r \in Responses : IsPrefix(Append(obs.chunks, chunkText), r)
    /\ obs' = [obs EXCEPT !.nChunks = @ + 1,
                          !.chunks = Append(@, chunkText),
                          !.responseText = @ \o chunkText]
    /\ IF ~gen.inToolCall /\ IncludesBracket(chunkText)
       THEN /\ gen' = [gen EXCEPT !.inToolCall = TRUE, !.toolCallBuffer = chunkText]
            /\ UNCHANGED yielded
       ELSE IF gen.inToolCall
       THEN LET buf == gen.toolCallBuffer \o chunkText
            IN  /\ gen' = IF IncludesCloser(buf) /\ IncludesOpener(buf)
                          THEN [gen EXCEPT !.inToolCall = FALSE,
                                           !.hasToolCalls = TRUE,
                                           !.toolCalls = @ \o ParseToolCall(buf),
                                           !.toolCallBuffer = <<>>]
                          ELSE [gen EXCEPT !.toolCallBuffer = buf]
                /\ UNCHANGED yielded
       ELSE /\ gen' = [gen EXCEPT !.accumulatedText = @ \o chunkText,
                                  !.fullContent = @ \o chunkText]
            /\ yielded' = Append(yielded,
                                 TextChunk(gen.fullContent \o chunkText, chunkText))
    /\ UNCHANGED <<stateHistory, stateFlow>>
    /\ UNCHANGED <<routingVars, utilVars>>

\* lines 256-365: the stream ends; tool calls found are run, otherwise the
\* generator completes, and run (or Gemini's _invoke and then run) takes the
\* response and records the turn
StreamEnd ==
    /\ gen.pc = "streaming"
    /\ obs.chunks \in Responses
    /\ IF gen.hasToolCalls /\ gen.toolCalls # <<>>
       THEN /\ gen' = StartTool(gen, 1)
            /\ obs' = Executed(Received(obs, TokenCount(obs.responseText) = 0), gen, 1)
            /\ yielded' = Append(yielded, ToolStartChunk)
            /\ UNCHANGED <<stateHistory, stateFlow>>
       ELSE LET all == Append(yielded, FinalChunk(gen.fullContent))
                response == IF AgentName(gen.agent) = "gemini" /\ gen.mode = "invoke"
                            THEN GeminiResult(all, <<>>, <<>>)
                            ELSE gen.fullContent
            IN  /\ gen' = [gen EXCEPT !.pc = "done", !.result = response]
                /\ obs' = Received(obs, TokenCount(obs.responseText) = 0)
                /\ yielded' = all
                /\ stateHistory' = TurnHistory(stateHistory, response, gen.agent)
                /\ stateFlow' = TurnFlow(stateFlow, response, gen.agent)
    /\ UNCHANGED <<routingVars, utilVars>>

\* lines 291-346: tool.execute resolves inside the generator
\* (gemini.ts 231-295, which also calls onFunctionCallFinish)
ToolReturn(toolResponse) ==
    /\ gen.pc = "await_tool"
    /\ LET call == gen.toolCalls[gen.toolIndex]
           g == [gen EXCEPT
                   !.currentContents = @ \o
                       <<Message("assistant", gen.accumulatedText),
                         Message("user", ToolResultText(call.name, toolResponse))>>,
                   !.accumulatedText = <<>>]
           o == [obs EXCEPT !.events =
                    Append(@, Ev("resolved", call.name)) \o
                    (IF CallbacksPassed(gen) /\ AgentName(gen.agent) = "gemini"
                     THEN <<Ev("onFunctionCallFinish", call.name)>> ELSE <<>>)]
       IN  /\ stateHistory' = stateHistory \o
                   <<AssistantToolMessage(gen.accumulatedText, <<call>>),
                     ToolMessage(call.name, toolResponse)>>
           /\ IF gen.toolIndex < Len(gen.toolCalls)
              THEN /\ gen' = StartTool(g, gen.toolIndex + 1)
                   /\ obs' = Executed(o, g, gen.toolIndex + 1)
                   /\ yielded' = yielded \o
                          <<ToolResultChunk(toolResponse), ToolStartChunk>>
              ELSE /\ obs.rounds < MaxRounds
                   /\ gen' = [g EXCEPT !.pc = "streaming",
                                       !.hasToolCalls = FALSE,
                                       !.toolCalls = <<>>,
                                       !.toolIndex = 0,
                                       !.pendingContents = g.currentContents]
                   /\ obs' = Called(o)
                   /\ yielded' = Append(yielded, ToolResultChunk(toolResponse))
    /\ UNCHANGED stateFlow
    /\ UNCHANGED <<routingVars, utilVars>>

\* tool.execute rejects: the generator, or Promise.all in _invoke, rethrows
ToolThrow(i) ==
    /\ gen.pc \in {"await_tool", "await_tools"}
    /\ IF gen.pc = "await_tool" THEN i = gen.toolIndex ELSE i \in gen.inflight
    /\ gen' = [gen EXCEPT !.pc = "threw", !.error = "tool failed", !.failed = i]
    /\ UNCHANGED <<stateHistory, stateFlow, yielded, obs>>
    /\ UNCHANGED <<routingVars, utilVars>>

\* The options the generator's StreamManager is constructed with:
\* new StreamManager() (openai.ts 163), none of the caller's handlers.
GeneratorManagerOptions == {}
\* StreamManager.error(error): options.onError is called when it is there
managerError(options, events) ==
    IF "onError" \in options
    THEN Append(events, Ev("onError", "provider failed")) ELSE events

\* openai.chat.completions.create rejects, or the stream it returned does:
\* the generator's catch calls manager.error and rethrows (lines 366-369);
\* run has no catch, so the call rejects
StreamFail ==
    /\ gen.pc = "streaming"
    /\ gen' = [gen EXCEPT !.pc = "threw", !.error = "provider failed"]
    /\ obs' = [obs EXCEPT !.events = managerError(GeneratorManagerOptions, @)]
    /\ UNCHANGED <<stateHistory, stateFlow, yielded>>
    /\ UNCHANGED <<routingVars, utilVars>>

RECURSIVE ExecutedAll(_, _)
ExecutedAll(o, calls) ==
    IF calls = <<>> THEN o
    ELSE ExecutedAll(IF Head(calls).name \in RegisteredTools
                     THEN [o EXCEPT !.executions = Append(@, Head(calls).name),
                                    !.events = Append(@, Ev("execute", Head(calls).name))]
                     ELSE o,
                     Tail(calls))

\* lines 51-67 and 89-107: a non-streamed completion arrives
Completion(res) ==
    /\ gen.pc = "await_create"
    /\ IF res.tool_calls = <<>>
       THEN /\ gen' = [gen EXCEPT !.pc = "done", !.result = res.content]
            /\ obs' = [Received(obs, TRUE) EXCEPT !.responseText = res.content]
            /\ stateHistory' = TurnHistory(stateHistory, res.content, gen.agent)
            /\ stateFlow' = TurnFlow(stateFlow, res.content, gen.agent)
       ELSE /\ gen' = [gen EXCEPT
                         !.pc = IF \A i \in 1..Len(res.tool_calls) :
                                      res.tool_calls[i].name \in RegisteredTools
                                THEN "await_tools" ELSE "threw",
                         !.error = IF \A i \in 1..Len(res.tool_calls) :
                                         res.tool_calls[i].name \in RegisteredTools
                                   THEN None ELSE "Tool not found",
                         !.assistantMsg = AssistantToolMessage(res.content,
                                                               res.tool_calls),
                         !.toolCalls = res.tool_calls,
                         !.inflight = {i \in 1..Len(res.tool_calls) :
                                          res.tool_calls[i].name \in RegisteredTools},
                         !.toolResults = [i \in 1..Len(res.tool_calls) |-> <<>>]]
            /\ obs' = ExecutedAll([Received(obs, FALSE) EXCEPT
                                       !.responseText = res.content],
                                   res.tool_calls)
            /\ UNCHANGED <<stateHistory, stateFlow>>
    /\ UNCHANGED yielded
    /\ UNCHANGED <<routingVars, utilVars>>

\* Promise.all keeps the order of the calls, whatever order they resolve in
ToolMessagesReversed(calls, results) ==
    [j \in 1..Len(calls) |->
        ToolMessage(calls[Len(calls) + 1 - j].id, results[Len(calls) + 1 - j])]
ToolMessages(calls, results) ==
    [j \in 1..Len(calls) |-> ToolMessage(calls[j].id, results[j])]

\* lines 63-92: one executor under Promise.all resolves; after the last one
\* the history is updated and the provider is called again
ToolResolve(i, toolResponse) ==
    /\ gen.pc = "await_tools"
    /\ i \in gen.inflight
    /\ LET results == [gen.toolResults EXCEPT ![i] = toolResponse]
           toolMessages == ToolMessages(gen.toolCalls, results)
           o == [obs EXCEPT !.events = Append(@, Ev("resolved", gen.toolCalls[i].name))]
       IN  IF gen.inflight = {i}
           THEN /\ obs.rounds < MaxRounds
                /\ stateHistory' = Append(stateHistory, gen.assistantMsg)
                                       \o toolMessages
                /\ gen' = [gen EXCEPT
                             !.pc = "await_create",
                             !.inflight = {},
                             !.toolResults = results,
                             !.pendingContents = Append(gen.currentContents,
                                                        gen.assistantMsg)
                                                     \o toolMessages]
                /\ obs' = Called(o)
           ELSE /\ gen' = [gen EXCEPT !.inflight = @ \ {i}, !.toolResults = results]
                /\ obs' = o
                /\ UNCHANGED stateHistory
    /\ UNCHANGED <<yielded, stateFlow>>
    /\ UNCHANGED <<routingVars, utilVars>>

LoopNext ==
    \/ \E a \in {"A", "B"} : \E mode \in {"invoke", "stream"} : BeginTurn(a, mode)
    \/ \E c \in Chunks : StreamChunk(c)
    \/ StreamEnd
    \/ \E r \in ToolResults : ToolReturn(r)
    \/ \E i \in 1..2 : ToolThrow(i)
    \/ StreamFail
    \/ \E res \in Completions : Completion(res)
    \/ \E r \in ToolResults : \E i \in 1..2 : ToolResolve(i, r)

LoopSpec == Init /\ [][LoopNext]_vars
TurnSpec == TurnInit /\ [][LoopNext]_vars

Next ==
    \/ \E a \in Agents : \E routes \in RouteMaps(a) : Connect(a, routes)
    \/ \E c \in InvokeCalls : Invoke(c.agent, c.message, c.variables, c.options)
    \/ \E c \in RunCalls : Run(c.agent, c.message, c.variables, c.conversationId)
    \/ \E a \in Agents : \E r \in ModelAnswers(a) : ProviderRespond(a, r)
    \/ \E e \in ErrorMessages : ProviderFail(e)
    \/ \E r \in CallbackResults : FunctionReturn(r)
    \/ \E e \in ErrorMessages : FunctionThrow(e)
    \/ PeerSettled
    \/ Settle

Spec == Init /\ [][Next]_vars

\* The same agents constructed with a system prompt, and with a context
\* window small enough for a turn's pruning to reach the system message.
SystemPrompt == <<Txt("help"), Ph("name")>>
SystemWindows == {2, 3}
SystemInit ==
    /\ connections = [a \in Agents |-> [t \in Targets |-> NoConn]]
    /\ systemprompt = [a \in Agents |-> SystemPrompt]
    /\ \E window \in SystemWindows : maxContextWindow = [a \in Agents |-> window]
    /\ conversationStates = [a \in Agents |-> ("default" :> FreshState(a, 0))]
    /\ nextThread = 1
    /\ stack = <<>>
    /\ outcome = NoFrame
    /\ dispatchLog = <<>>
    /\ nCalls = 0
    /\ LoopInit /\ ManagerInit /\ PromptIdle /\ ConcurrentInit /\ RegistryInit /\ TwinInit /\ ResponseInit /\ UsageInit
SystemSpec == SystemInit /\ [][Next]_vars

\* Agent B's default conversation as the application finds it: fresh, or as
\* B.run("refund") answered "ok" has left it.
EarlierPeerStates ==
    { FreshState("B", 0),
      [FreshState("B", 0) EXCEPT
          !.history = <<Message("user", interpolatePrompt(Refund, <<>>)),
                        Message("assistant", Ok)>>,
          !.conversation_flow =
              <<FlowEntry(AgentName("B"), interpolatePrompt(Refund, <<>>), Ok, None)>>] }
MergeInit ==
    /\ connections = [a \in Agents |-> [t \in Targets |-> NoConn]]
    /\ systemprompt = [a \in Agents |-> <<>>]
    /\ \E window \in ContextWindows : maxContextWindow = [a \in Agents |-> window]
    /\ \E st \in EarlierPeerStates :
          conversationStates =
              [a \in Agents |-> ("default" :> IF a = "B" THEN st ELSE FreshState(a, 0))]
    /\ nextThread = 1
    /\ stack = <<>>
    /\ outcome = NoFrame
    /\ dispatchLog = <<>>
    /\ nCalls = 0
    /\ LoopInit /\ ManagerInit /\ PromptIdle /\ ConcurrentInit /\ RegistryInit /\ TwinInit /\ ResponseInit /\ UsageInit
MergeSpec == MergeInit /\ [][Next]_vars

TwinSpec == Init /\ [][TwinNext]_vars

UsageSpec == Init /\ [][UsageNext]_vars

ResponseSpec == Init /\ [][ResponseNext]_vars

(***************************************************************************)
(* clearState and the inspection calls.                                    *)
(***************************************************************************)
\* clearState(conversationId): the store and the thread counter after it.
clearStateKeepThread(cs, nt, a, id) ==
    [cs |-> [a2 \in Agents |->
                IF a2 = a
                THEN [i \in DOMAIN cs[a] \cup {id} |->
                         IF i = id THEN FreshState(a, Peek(cs, a, id).thread_id)
                         ELSE cs[a][i]]
                ELSE cs[a2]],
     nt |-> nt + 1]
clearState(cs, nt, a, id) ==
    [cs |-> [a2 \in Agents |->
                IF a2 = a
                THEN [i \in DOMAIN cs[a] \cup {id} |->
                         IF i = id THEN FreshState(a, nt) ELSE cs[a][i]]
                ELSE cs[a2]],
     nt |-> nt + 1]

getConversationFlow(a, id) == Peek(conversationStates, a, id).conversation_flow
getTransferHistory(a, id) == Peek(conversationStates, a, id).transfers

\* The conversation ids clearState is called with: its default argument.
ClearIds == {"default"}

\* clearState(id) on the agent whose call has just settled; outcome keeps
\* what the conversation held before the clear.
ClearState(a, id) ==
    /\ Idle
    /\ outcome.pc \in {"done", "threw"}
    /\ outcome.agent = a
    /\ LET c == clearState(conversationStates, nextThread, a, id)
       IN  /\ conversationStates' = c.cs
           /\ nextThread' = c.nt
    /\ outcome' = [NoFrame EXCEPT !.pc = "cleared", !.method = "clearState",
                                  !.agent = a, !.conv = id,
                                  !.pre = Peek(conversationStates, a, id),
                                  !.preDefault = Peek(conversationStates, a, "default")]
    /\ UNCHANGED <<connections, systemprompt, maxContextWindow, stack,
                   dispatchLog, nCalls>>
    /\ UNCHANGED <<loopVars, utilVars>>

\* The ids and the state the inspection calls and setState are made with.
StateIds == {"default", "c1", "constructor"}
GivenState(a) ==
    [FreshState(a, 99) EXCEPT !.history = <<Message("user", <<Txt("restored")>>)>>]

\* getState(id), getConversationFlow(id) or getTransferHistory(id) between
\* turns: each is getOrCreateState(id), the last two followed by a field
\* read.  outcome keeps what the conversation held before the call.
Inspect(a, id) ==
    /\ Idle
    /\ outcome.pc \in {"done", "threw"}
    /\ outcome.agent = a
    /\ LET g == getOrCreateState(conversationStates, nextThread, a, id)
       IN  /\ conversationStates' = g.cs
           /\ nextThread' = g.nt
    /\ outcome' = [NoFrame EXCEPT !.pc = "returned", !.method = "getState",
                                  !.agent = a, !.conv = id,
                                  !.pre = Peek(conversationStates, a, id),
                                  !.preDefault = Peek(conversationStates, a, "default")]
    /\ UNCHANGED <<connections, systemprompt, maxContextWindow, stack,
                   dispatchLog, nCalls>>
    /\ UNCHANGED <<loopVars, utilVars>>

\* setState(id, state): this.conversationStates[id] = state
setState(cs, a, id, state) ==
    [a2 \in Agents |->
        IF a2 = a
        THEN [i \in DOMAIN cs[a] \cup {id} |-> IF i = id THEN state ELSE cs[a][i]]
        ELSE cs[a2]]

SetState(a, id) ==
    /\ Idle
    /\ outcome.pc \in {"done", "threw"}
    /\ outcome.agent = a
    /\ conversationStates' = setState(conversationStates, a, id, GivenState(a))
    /\ outcome' = [NoFrame EXCEPT !.pc = "set", !.method = "setState",
                                  !.agent = a, !.conv = id,
                                  !.pre = Peek(conversationStates, a, id),
                                  !.preDefault = Peek(conversationStates, a, "default")]
    /\ UNCHANGED <<connections, systemprompt, maxContextWindow, nextThread, stack,
                   dispatchLog, nCalls>>
    /\ UNCHANGED <<loopVars, utilVars>>

\* clearState and setState are called once the last turn has settled, the
\* inspection calls after any turn.
ClearStateLast(a, id) == nCalls = MaxCalls /\ ClearState(a, id)
SetStateLast(a, id) == nCalls = MaxCalls /\ SetState(a, id)

StateNext ==
    \/ Next
    \/ \E a \in Agents : \E id \in ClearIds : ClearStateLast(a, id)
    \/ \E a \in Agents : \E id \in ClearIds : SetStateLast(a, id)
    \/ \E a \in Agents : \E id \in StateIds : Inspect(a, id)

StateSpec == Init /\ [][StateNext]_vars

ClearNext ==
    \/ Next
    \/ \E a \in Agents : \E id \in ClearIds : ClearState(a, id)

ClearSpec == Init /\ [][ClearNext]_vars

\* The application registers its tools and routes, then makes its calls and
\* clears conversations between them.
RegistrationDone ==
    /\ \A a \in ToolAgents : Len(tools[a]) = MaxTools
    /\ \A a \in Agents : \A routes \in RouteMaps(a) :
           DOMAIN routes \subseteq DOMAIN connections[a]
    /\ \A a \in Agents : \A routes \in OverrideMaps(a) :
           \A t \in DOMAIN routes : connections[a][t] = routes[t]

RegistryNext ==
    \/ \E a \in ToolAgents : \E t \in ToolNames : AddTool(a, t)
    \/ \E a \in Agents : \E routes \in RouteMaps(a) \cup OverrideMaps(a) :
           Connect(a, routes)
    \/ RegistrationDone /\ Next
    \/ \E a \in Agents : \E id \in ClearIds : ClearStateLast(a, id)

RegistrySpec == Init /\ [][RegistryNext]_vars

(***************************************************************************)
(* Properties of routing, checked under Spec.                              *)
(***************************************************************************)
\* The calls in progress and the last settled one.
Frames ==
    {stack[i] : i \in 1..Len(stack)} \cup (IF outcome.pc = "none" THEN {} ELSE {outcome})
DispatchesBy(f) == {i \in 1..Len(dispatchLog) : dispatchLog[i].by = f.agent}
TransfersOf(f) == Peek(conversationStates, f.agent, f.conv).transfers
FlowOf(f) == Peek(conversationStates, f.agent, f.conv).conversation_flow
HasBoth(answer) == HasMatch(answer, "TRANSFER") /\ HasMatch(answer, "ESCALATE")
NoConnectionText(target) == <<[k |-> "ERROR: No connection found for", v |-> target]>>
FailedText(f, e) ==
    <<[k |-> "ERROR: Failed to", v |-> f.rtarget, type |-> f.rtype, msg |-> e.error]>>

\* C1: an answer holding both a TRANSFER and an ESCALATE token, in either
\* order, dispatches to the transfer target only: the agent invokes one
\* connection when that target is connected (none otherwise), and it is the
\* connection of the first TRANSFER token, as a transfer.
C1_TransferPrecedence ==
    \A f \in Frames :
        (f.pc \in {"await_function", "await_peer", "done"} /\ HasBoth(f.answer)) =>
            LET X == FirstMatch(f.answer, "TRANSFER")
            IN  /\ Cardinality(DispatchesBy(f)) =
                       IF Connection(f.agent, X).kind = "none" THEN 0 ELSE 1
                /\ \A i \in DispatchesBy(f) :
                       /\ dispatchLog[i].type = "transfer"
                       /\ dispatchLog[i].target = X
                       /\ dispatchLog[i].ref = Connection(f.agent, X).ref

\* A settled call whose answer had the ESCALATE token before the TRANSFER
\* token and that invoked exactly one connection.
C1_Witness ==
    /\ outcome.pc = "done"
    /\ HasBoth(outcome.answer)
    /\ Min(MatchPositions(outcome.answer, "ESCALATE"))
          < Min(MatchPositions(outcome.answer, "TRANSFER"))
    /\ Cardinality(DispatchesBy(outcome)) = 1

C4_TransferHistoryOfEntryAgent ==
    ( /\ outcome.pc = "done"
      /\ outcome.method = "invoke"
      /\ outcome.stateless
      /\ outcome.rtype = "transfer"
      /\ outcome.dispatch # 0 ) =>
        LET e == dispatchLog[outcome.dispatch]
        IN  (e.kind = "llm" /\ e.status = "returned") =>
                /\ outcome.ret = e.result
                /\ Peek(conversationStates, outcome.agent, "default").transfers
                      = Append(outcome.preDefault.transfers,
                               Transfer("transfer", outcome.rtarget))

\* C5 as stated: invoke without a conversation id works on the "default"
\* conversation: its provider call sees the earlier user and assistant
\* messages of that conversation, and afterwards the default history ends
\* with the user message and the final answer and the default flow log grew.
C5_InvokeUsesDefaultConversation ==
    ( /\ outcome.pc = "done"
      /\ outcome.method = "invoke"
      /\ outcome.stateless ) =>
        LET d == Peek(conversationStates, outcome.agent, "default")
            h == d.history
            before == outcome.preDefault.history
        IN  /\ \A i \in 1..Len(before) :
                   before[i].role \in {"user", "assistant"} =>
                       \E j \in 1..Len(outcome.context) : outcome.context[j] = before[i]
            /\ Len(h) >= 2
            /\ h[Len(h) - 1] =
                   Message("user", interpolatePrompt(outcome.message, outcome.variables))
            /\ h[Len(h)] = Message("assistant", outcome.answer)
            /\ Len(d.conversation_flow) > Len(outcome.preDefault.conversation_flow)

\* C6: once a directive is resolved the call returns exactly the resolved
\* response (the peer's return value, the callback's return value or the
\* inline error string), with nothing of the pre-transfer answer; along a
\* chain whose last agent answers without a directive, the first call
\* returns that last answer.
C6_ResolvedResponseReplaces ==
    /\ \A f \in Frames :
           (f.pc = "done" /\ f.rtarget # None) =>
               IF f.dispatch = 0
               THEN f.ret = NoConnectionText(f.rtarget)
               ELSE LET e == dispatchLog[f.dispatch]
                    IN  /\ e.status = "returned" => f.ret = e.result
                        /\ e.status = "threw" => f.ret = FailedText(f, e)
    /\ \A i, j \in 1..Len(dispatchLog) :
           LET hop1 == dispatchLog[i]
               hop2 == dispatchLog[j]
           IN  ( /\ outcome.pc = "done" /\ outcome.dispatch = i
                 /\ hop1.kind = "llm" /\ hop1.status = "returned"
                 /\ hop2.by = hop1.ref /\ hop2.kind = "llm" /\ hop2.status = "returned"
                 /\ ~HasMatch(hop2.answer, "TRANSFER")
                 /\ ~HasMatch(hop2.answer, "ESCALATE") ) =>
                   outcome.ret = hop2.answer

\* A settled chain A -> B -> C that returned C's answer.
C6_Witness ==
    /\ outcome.pc = "done"
    /\ Len(dispatchLog) = 2
    /\ \A i \in 1..2 : dispatchLog[i].kind = "llm" /\ dispatchLog[i].status = "returned"
    /\ dispatchLog[2].answer = Ok
    /\ outcome.ret = Ok
    /\ outcome.answer # Ok

\* C7: a connected callback is invoked once, with the caller's message as
\* it was given; a connected peer is invoked once, with that message minus
\* every directive token (and trimmed of surrounding blanks).
C7_ForwardedMessage ==
    \A f \in Frames :
        f.dispatch # 0 =>
            LET e == dispatchLog[f.dispatch]
            IN  /\ DispatchesBy(f) = {f.dispatch}
                /\ e.kind = "function" => e.arg = f.message
                /\ e.kind = "llm" =>
                       /\ \A i \in 1..Len(e.arg) : ~IsDirective(e.arg[i])
                       /\ e.arg = Trim(SelectSeq(f.message, LAMBDA it : ~IsDirective(it)))

\* A peer was handed a message that had carried a directive token.
C7_Witness ==
    \E f \in Frames :
        /\ f.dispatch # 0
        /\ dispatchLog[f.dispatch].kind = "llm"
        /\ \E i \in 1..Len(f.message) : IsDirective(f.message[i])
        /\ dispatchLog[f.dispatch].arg = <<Ph("name"), Txt("refund")>>

\* The routing flow-log entry of a call, and the entries a stateful call
\* records for its own answer.
RoutingEntry(f, e) ==
    [llmName |-> IF e.kind = "function" THEN FunctionName(f.rtarget) ELSE AgentName(e.ref),
     message |-> f.message, response |-> f.ret, transferTarget |-> f.rtarget]
OwnEntries(f) ==
    IF f.stateless THEN <<>>
    ELSE <<[llmName |-> AgentName(f.agent),
            message |-> interpolatePrompt(f.message, f.variables),
            response |-> f.answer, transferTarget |-> None]>>
RoutingEntriesAdded(f, e) ==
    {i \in (Len(f.pre.conversation_flow) + 1)..Len(FlowOf(f)) :
        FlowOf(f)[i] = RoutingEntry(f, e)}
MergedFlow(e) ==
    IF e.kind = "llm"
    THEN Peek(conversationStates, e.ref, "default").conversation_flow ELSE <<>>

\* C8 as stated: every directive to a connected target adds exactly one
\* routing entry to the flow log, whether the peer or callback returned or
\* threw.
C8_RoutingEntryAlways ==
    \A f \in Frames :
        (f.pc = "done" /\ f.dispatch # 0) =>
            Cardinality(RoutingEntriesAdded(f, dispatchLog[f.dispatch])) = 1

\* C8 amended: the routing entry is added, last, when the peer or callback
\* returned; when it threw the flow log gets no routing entry.
C8_RoutingEntryOnReturn ==
    \A f \in Frames :
        (f.pc = "done" /\ f.dispatch # 0) =>
            LET e == dispatchLog[f.dispatch]
            IN  IF e.status = "returned"
                THEN /\ Cardinality(RoutingEntriesAdded(f, e)) = 1
                     /\ FlowOf(f) = f.pre.conversation_flow \o OwnEntries(f)
                                       \o MergedFlow(e) \o <<RoutingEntry(f, e)>>
                ELSE /\ RoutingEntriesAdded(f, e) = {}
                     /\ FlowOf(f) = f.pre.conversation_flow \o OwnEntries(f)

\* A callback threw, the call returned the inline error and recorded no
\* routing entry.
C8_Witness ==
    /\ outcome.pc = "done"
    /\ outcome.dispatch # 0
    /\ dispatchLog[outcome.dispatch].status = "threw"
    /\ outcome.ret = FailedText(outcome, dispatchLog[outcome.dispatch])
    /\ FlowOf(outcome) = outcome.pre.conversation_flow \o OwnEntries(outcome)

\* C9 as stated: after a transfer the flow log of the initiating conversation
\* holds, for every peer reached, the entry that peer recorded for the
\* forwarded message, and the routing entry of every further hop.
C9_RootFlowShowsEveryHop ==
    \A i \in 1..Len(dispatchLog) :
        LET e == dispatchLog[i]
        IN  (outcome.pc = "done" /\ e.kind = "llm" /\ e.status = "returned") =>
                /\ \E j \in 1..Len(FlowOf(outcome)) :
                       FlowOf(outcome)[j] =
                           [llmName |-> AgentName(e.ref), message |-> e.arg,
                            response |-> e.answer, transferTarget |-> None]
                /\ e.by # outcome.agent =>
                       \E j \in 1..Len(FlowOf(outcome)) :
                           /\ FlowOf(outcome)[j].llmName = AgentName(e.ref)
                           /\ FlowOf(outcome)[j].transferTarget = e.target
                           /\ FlowOf(outcome)[j].response = e.result

\* C10 as stated: once a response of the provider holds no tool call (no
\* [TOOL_CALL:name:json] token in a streamed response, no tool_calls in a
\* completion), the adapter makes no further provider call.
C10_NoCallAfterPlainResponse == obs.callsAfterPlain = 0

(***************************************************************************)
(* Properties of the tool loop, checked under LoopSpec.                    *)
(***************************************************************************)
\* C11 as stated: when the loop ends on a response without a tool-call
\* token, the string returned is the text of that final response alone, with
\* no text of earlier responses of the turn and no tool result.
C11_ReturnsFinalResponseOnly ==
    (gen.pc = "done" /\ TokenCount(obs.responseText) = 0) =>
        gen.result = obs.responseText

\* Where the stored history records a call of a tool, and where its result.
CallRecords(name) ==
    {i \in 1..Len(stateHistory) :
        /\ "tool_calls" \in DOMAIN stateHistory[i]
        /\ \E k \in 1..Len(stateHistory[i].tool_calls) :
               stateHistory[i].tool_calls[k].name = name}
ResultMessages(name) ==
    {i \in 1..Len(stateHistory) :
        /\ "tool_call_id" \in DOMAIN stateHistory[i]
        /\ \E r \in CallRecords(name) :
               \E k \in 1..Len(stateHistory[r].tool_calls) :
                   /\ stateHistory[r].tool_calls[k].name = name
                   /\ stateHistory[r].tool_calls[k].id = stateHistory[i].tool_call_id}
\* One response called add and then mul, both executors resolved, and
\* nothing else was called in the turn; pruning is off.
TwoCallsRecorded ==
    /\ obs.executions = <<"add", "mul">>
    /\ Cardinality({i \in 1..Len(obs.events) : obs.events[i].ev = "resolved"}) = 2
    /\ gen.pc \in {"streaming", "await_create", "done"}
    /\ maxContextWindow[gen.agent] = 0

\* C12 as stated: the call record and the result of add both stand strictly
\* before the call record and the result of mul.
C12_PairsStrictlyOrdered ==
    TwoCallsRecorded =>
        \A a \in CallRecords("add") \cup ResultMessages("add") :
            \A b \in CallRecords("mul") \cup ResultMessages("mul") : a < b

\* C12 amended: each call is recorded before its own result and the result
\* of add stands before the result of mul; on the streaming path the two
\* pairs are record, result, record, result; on the non-streaming path one
\* assistant record carries both calls, add first, and the two results
\* follow it in call order, whichever executor resolved first.
C12_ResultsInCallOrder ==
    TwoCallsRecorded =>
        \E ra \in CallRecords("add"), sa \in ResultMessages("add"),
           rb \in CallRecords("mul"), sb \in ResultMessages("mul") :
            /\ CallRecords("add") = {ra} /\ ResultMessages("add") = {sa}
            /\ CallRecords("mul") = {rb} /\ ResultMessages("mul") = {sb}
            /\ IF gen.pc = "await_create" \/ (gen.mode = "invoke" /\ gen.agent = "A")
               THEN /\ ra = rb /\ sa = ra + 1 /\ sb = ra + 2
                    /\ stateHistory[ra].tool_calls[1].name = "add"
                    /\ stateHistory[ra].tool_calls[2].name = "mul"
               ELSE /\ sa = ra + 1 /\ rb = ra + 2 /\ sb = ra + 3

\* The non-streaming path recorded both calls after mul resolved first.
C12_Witness ==
    /\ TwoCallsRecorded
    /\ gen.pc = "await_create"
    /\ \E i, j \in 1..Len(obs.events) :
           /\ i < j
           /\ obs.events[i] = Ev("resolved", "mul")
           /\ obs.events[j] = Ev("resolved", "add")

\* The executors started and not yet resolved.
CountEvents(kind) ==
    Cardinality({i \in 1..Len(obs.events) : obs.events[i].ev = kind})
ExecutorsInFlight == CountEvents("execute") - CountEvents("resolved")

\* C13 as stated: the tool calls of one model turn run one after the other,
\* so at no time are two executors of the turn in flight.
C13_OneExecutorInFlight == gen.pc # "threw" => ExecutorsInFlight <= 1

\* The adapter has come to a tool call whose name is not registered.
UnknownReached ==
    \E i \in 1..Len(gen.toolCalls) :
        /\ gen.toolCalls[i].name \notin RegisteredTools
        /\ gen.toolIndex = i \/ (gen.agent = "A" /\ gen.mode = "invoke")
\* The turn's final assistant message: an assistant message without tool calls.
FinalAssistantMessages ==
    {i \in 1..Len(stateHistory) :
        /\ stateHistory[i].role = "assistant"
        /\ "tool_calls" \notin DOMAIN stateHistory[i]}

TokensWith(text, json) ==
    Cardinality({i \in 1..(Len(text) - 2) :
                    /\ text[i].k = "[TOOL_CALL:"
                    /\ text[i + 1].k = "body"
                    /\ text[i + 1].json = json
                    /\ text[i + 2].k = "]"})
\* The streamed response has been read to its end.
ResponseScanned ==
    gen.pc \in {"await_tool", "threw", "done"} /\ gen.error # "provider failed"

C16_CallbacksAroundExecution ==
    gen.mode = "stream" =>
        \A j \in 1..Len(obs.events) :
            /\ obs.events[j].ev = "execute" =>
                  /\ j > 1
                  /\ obs.events[j - 1] = Ev("onFunctionCall", obs.events[j].name)
            /\ obs.events[j].ev = "resolved" =>
                  /\ j < Len(obs.events)
                  /\ obs.events[j + 1] = Ev("onFunctionCallFinish", obs.events[j].name)
                  /\ CountEvents("onFunctionCallFinish") = CountEvents("resolved")

\* Every complete token of the text is well formed and names a registered tool.
OnlyRegisteredWellFormed(text) ==
    \A i \in 1..Len(text) :
        text[i].k = "body" => text[i].json = "flat" /\ text[i].v \in RegisteredTools

\* The response was read by the stream generator's scanner.
TextualProtocol == gen.mode = "stream" \/ AgentName(gen.agent) = "gemini"

\* C17: in the textual protocol a response with N well-formed tokens naming
\* registered tools yields exactly N tool calls, one per token, however the
\* text was split into deltas, and the turn does not end before they ran.
C17_OneExecutionPerToken ==
    (ResponseScanned /\ TextualProtocol /\ gen.error # "tool failed"
        /\ OnlyRegisteredWellFormed(obs.responseText)
        /\ TokensWith(obs.responseText, "flat") >= 1) =>
        /\ Len(gen.toolCalls) = TokensWith(obs.responseText, "flat")
        /\ gen.pc = "await_tool"

(***************************************************************************)
(* Properties of the stored history, checked under Spec.                   *)
(***************************************************************************)
\* h2 is h with one user message pushed.
UserPushed(h, h2) ==
    /\ Len(h2) = Len(h) + 1
    /\ h2[Len(h2)].role = "user"
    /\ SubSeq(h2, 1, Len(h)) = h
\* h2 is h after the final assistant message of a turn was pushed and the
\* history pruned to K: the oldest messages beyond K are gone, as a prefix.
TurnCompleted(h, h2, K) ==
    /\ Len(h2) >= 1
    /\ h2[Len(h2)].role = "assistant"
    /\ Len(h2) <= K
    /\ LET full == Append(h, h2[Len(h2)])
           excess == IF Len(full) > K THEN Len(full) - K ELSE 0
       IN  h2 = SubSeq(full, excess + 1, Len(full))

\* The step in which this._invoke resolved for the stateful turn of a on id.
CompletesTurn(a, id) ==
    /\ ~Idle
    /\ Top.pc = "await_invoke" /\ ~Top.stateless
    /\ Top.agent = a /\ Top.conv = id
    /\ Len(stack') >= Len(stack)
    /\ stack'[Len(stack)].pc \notin {"await_invoke", "threw"}

\* C18: with maxContextWindow = K > 0, the step that completes a stateful
\* turn leaves at most K messages, having removed exactly the oldest
\* messages beyond K as one prefix and kept the rest in order (a transfer
\* to the same conversation may push the next user message in that step);
\* every other step leaves a history alone or pushes a user message, so
\* nothing is pruned between the user message and the final assistant
\* message.
C18_PrunedAtTurnCompletion ==
    [][\A a \in Agents : \A id \in DOMAIN conversationStates'[a] :
          LET K == maxContextWindow[a]
              h == Peek(conversationStates, a, id).history
              h2 == conversationStates'[a][id].history
          IN  K > 0 =>
                IF CompletesTurn(a, id)
                THEN \/ TurnCompleted(h, h2, K)
                     \/ /\ Len(h2) >= 2
                        /\ UserPushed(SubSeq(h2, 1, Len(h2) - 1), h2)
                        /\ TurnCompleted(h, SubSeq(h2, 1, Len(h2) - 1), K)
                ELSE h2 = h \/ UserPushed(h, h2)]_vars

\* A second turn on a conversation ended with its oldest message pruned.
C18_Witness ==
    /\ outcome.pc = "done"
    /\ ~outcome.stateless
    /\ maxContextWindow[outcome.agent] = 3
    /\ Len(outcome.pre.history) = 2
    /\ LET h == conversationStates[outcome.agent][outcome.conv].history
       IN  /\ Len(h) = 3
           /\ h[1] = outcome.pre.history[2]
           /\ h[2].role = "user"
           /\ h[3].role = "assistant"

(***************************************************************************)
(* Pruning after a turn with tool calls, checked under LoopSpec.           *)
(***************************************************************************)
\* C19: after a turn with tool calls and maxContextWindow = K, the oldest
\* stored message is never a tool-role message whose assistant tool-call
\* message is no longer in the history.
C19_NoOrphanedToolResultAtHead ==
    (gen.pc = "done" /\ stateHistory # <<>> /\ stateHistory[1].role = "tool") =>
        \E r \in 1..Len(stateHistory) :
            /\ "tool_calls" \in DOMAIN stateHistory[r]
            /\ \E k \in 1..Len(stateHistory[r].tool_calls) :
                   stateHistory[r].tool_calls[k].id = stateHistory[1].tool_call_id

(***************************************************************************)
(* Properties of clearState, checked under ClearSpec.                      *)
(***************************************************************************)
\* C20: after clearState(id), whatever was done on id before, the
\* conversation flow and the transfer history of id read as empty, its
\* history is empty, and its thread id is not the one it had before.
C20_ClearStateResets ==
    outcome.pc = "cleared" =>
        /\ getConversationFlow(outcome.agent, outcome.conv) = <<>>
        /\ getTransferHistory(outcome.agent, outcome.conv) = <<>>
        /\ Peek(conversationStates, outcome.agent, outcome.conv).history = <<>>
        /\ outcome.conv \in DOMAIN conversationStates[outcome.agent]
        /\ conversationStates[outcome.agent][outcome.conv].thread_id
               # outcome.pre.thread_id

\* A conversation with history, flow entries and a recorded transfer was
\* cleared.
C20_Witness ==
    /\ outcome.pc = "cleared"
    /\ outcome.pre.history # <<>>
    /\ outcome.pre.conversation_flow # <<>>
    /\ outcome.pre.transfers # <<>>

(***************************************************************************)
(* Properties of the conversation store, checked under StateSpec.          *)
(***************************************************************************)
IsState(s) ==
    DOMAIN s = {"thread_id", "history", "conversation_flow", "transfers", "current_llm"}
\* The id had a state before the inspection call recorded in outcome: the
\* constructor makes "default", and every later state has a thread id that
\* is not 0.
KnownBefore == outcome.conv = "default" \/ outcome.pre.thread_id # 0

\* C21: getOrCreateState(id) never returns a missing state: for an unseen
\* id the inspection call returns a new state with empty history, flow log
\* and transfer log, for a known id the state it had; and the thread id of
\* a conversation changes in no step other than clearState or setState.
C21_GetOrCreateStateReturnsState ==
    /\ [](outcome.pc = "returned" =>
             LET s == Stored(conversationStates, outcome.agent, outcome.conv)
             IN  /\ IsState(s)
                 /\ IF KnownBefore
                    THEN s = outcome.pre
                    ELSE /\ s.history = <<>>
                         /\ s.conversation_flow = <<>>
                         /\ s.transfers = <<>>)
    /\ [][\A a \in Agents : \A id \in DOMAIN conversationStates[a] :
             conversationStates'[a][id].thread_id # conversationStates[a][id].thread_id
                => /\ outcome'.pc \in {"cleared", "set"}
                   /\ outcome'.agent = a
                   /\ outcome'.conv = id]_vars

(***************************************************************************)
(* Properties of StreamManager, checked under ManagerSpec.                 *)
(***************************************************************************)
\* d1 + ... + di
Joined(deltas, i) == Flatten(SubSeq(deltas, 1, i))

\* C23: after processChunk(d1) ... processChunk(dn) the i-th returned chunk
\* has delta di, content d1+...+di and isComplete false; complete() after
\* them returns the chunk with content d1+...+dn, empty delta and
\* isComplete true, and getFullContent() is that content.
C23_ChunksAccumulate ==
    LET n == Len(manager.deltas)
    IN  /\ \A i \in 1..n :
              /\ manager.returned[i].delta = manager.deltas[i]
              /\ manager.returned[i].content = Joined(manager.deltas, i)
              /\ ~manager.returned[i].isComplete
        /\ getFullContent(manager) = Joined(manager.deltas, n)
        /\ manager.isComplete =>
              /\ Len(manager.returned) = n + 1
              /\ manager.returned[n + 1] =
                     [content |-> Joined(manager.deltas, n), delta |-> <<>>,
                      isComplete |-> TRUE]

\* Three deltas, an empty one among them, were processed and the stream
\* completed.
C23_Witness ==
    /\ manager.isComplete
    /\ Len(manager.deltas) = 3
    /\ manager.deltas[2] = <<>>
    /\ manager.deltas[1] # <<>> /\ manager.deltas[3] # <<>>

(***************************************************************************)
(* Properties of the streamed run, checked under LoopSpec.  run hands      *)
(* every chunk the generator yields to onChunk (base.ts 355-358).          *)
(***************************************************************************)
CompleteChunks == {i \in 1..Len(yielded) : yielded[i].isComplete}

\* C24: a successful streaming run delivers exactly one chunk with
\* isComplete = true; it is the last chunk, and it comes only after every
\* tool execution of the turn has finished and the model's last response
\* held no tool call.
C24_OneCompleteChunkLast ==
    gen.mode = "stream" =>
        IF gen.pc = "done"
        THEN /\ CompleteChunks = {Len(yielded)}
             /\ CountEvents("execute") = CountEvents("resolved")
             /\ TokensWith(obs.responseText, "flat") = 0
        ELSE CompleteChunks = {}

\* The non-empty deltas of the chunks delivered so far, joined in order.
DeliveredDeltas == Flatten([i \in 1..Len(yielded) |-> yielded[i].delta])

\* C25: in a streaming run the deltas of the delivered chunks, joined in
\* delivery order, are exactly the content of the final chunk, which is
\* the string run hands to onComplete and returns.
C25_DeltasJoinToFinalContent ==
    (gen.mode = "stream" /\ gen.pc = "done") =>
        /\ DeliveredDeltas = yielded[Len(yielded)].content
        /\ gen.result = yielded[Len(yielded)].content

\* A run with text before a tool call and text in the round after it.
C25_Witness ==
    /\ gen.mode = "stream" /\ gen.pc = "done"
    /\ obs.rounds = 2
    /\ obs.executions = <<"add">>
    /\ Len(gen.result) = 2

\* The items of a response text that belong to a [TOOL_CALL:name:args] token.
TokenItems(text) ==
    UNION {{i, i + 1, i + 2} : i \in {j \in 1..(Len(text) - 2) :
                                        /\ text[j].k = "[TOOL_CALL:"
                                        /\ text[j + 1].k = "body"
                                        /\ text[j + 2].k = "]"}}
\* The response text without its tokens, in order.
RECURSIVE Picked(_, _, _)
Picked(text, drop, i) ==
    IF i > Len(text) THEN <<>>
    ELSE (IF i \in drop THEN <<>> ELSE <<text[i]>>) \o Picked(text, drop, i + 1)
NonTokenText(text) == Picked(text, TokenItems(text), 1)

\* C26: in the textual protocol all model output outside tool-call tokens,
\* text holding a '[' that opens no tool call included, reaches the caller
\* as assistant content, in order, however the output is split into
\* deltas.  Stated for turns of one provider round.
C26_TextOutsideTokensDelivered ==
    (TextualProtocol /\ gen.mode = "stream" /\ gen.pc = "done" /\ obs.rounds = 1) =>
        gen.result = NonTokenText(obs.responseText)

\* C27: in streaming mode, when the provider call or the stream fails and
\* the caller registered onError, the handler is called with the error, and
\* the failure is not swallowed: the stream does not end as if complete.
C27_OnErrorCalledOnFailure ==
    (gen.mode = "stream" /\ gen.error = "provider failed") =>
        /\ CountEvents("onError") = 1
        /\ gen.pc = "threw"
        /\ CompleteChunks = {}

\* The executor of call j of the response was started: the for-loop came to
\* it, or Promise.all waits for it, or it resolved.
StartedCall(j) ==
    \/ j <= gen.toolIndex
    \/ j \in gen.inflight
    \/ (j \in DOMAIN gen.toolResults /\ gen.toolResults[j] # <<>>)
ToolMessagesIn(history) ==
    Cardinality({i \in 1..Len(history) : history[i].role = "tool"})
ToolFailed == gen.error = "tool failed"
\* What is left of a turn whose tool executor threw.
FailedTurnLeft ==
    /\ gen.pc = "threw"
    /\ gen.result = <<>>
    /\ Len(stateHistory) >= 1
    /\ stateHistory[1] = Message("user", Question)
    /\ ToolMessagesIn(stateHistory) = CountEvents("resolved")
    /\ FinalAssistantMessages = {}
    /\ stateFlow = <<>>

\* C28: when a tool executor throws during a stateful turn, the call rejects
\* with the error, no tool later in the response has been executed, the
\* history holds the user message and one tool message for every executor
\* that succeeded, and neither a final assistant message nor a flow-log
\* entry is added.
C28_ToolFailureAbortsTurn ==
    ToolFailed =>
        /\ FailedTurnLeft
        /\ \A j \in 1..Len(gen.toolCalls) : j > gen.failed => ~StartedCall(j)
\* The same turn in the textual protocol, where the for-loop awaits each
\* executor before it starts the next.
C28_SequentialFailureAbortsTurn ==
    (ToolFailed /\ TextualProtocol) =>
        /\ FailedTurnLeft
        /\ \A j \in 1..Len(gen.toolCalls) : j > gen.failed => ~StartedCall(j)
\* After the failure the turn makes no provider call and records nothing.
C28_NothingAfterFailure ==
    [][ToolFailed =>
          /\ obs'.rounds = obs.rounds
          /\ obs'.executions = obs.executions
          /\ stateHistory' = stateHistory
          /\ stateFlow' = stateFlow
          /\ gen' = gen]_vars
\* The second tool of a streamed response threw after the first succeeded.
C28_SequentialWitness ==
    /\ ToolFailed /\ gen.mode = "stream"
    /\ gen.failed = 2
    /\ ToolMessagesIn(stateHistory) = 1

\* The placeholders of a template: where an opening brace, a run of word
\* characters and a closing brace follow one another.
Placeholders(t) ==
    {i \in 1..(Len(t) - 2) : t[i].k = "{" /\ t[i + 1].k = "w" /\ t[i + 2].k = "}"}
\* What the template becomes: each placeholder whose key is in M gives way to
\* M[key], everything else stays as it is.
Substituted(t, M) ==
    Flatten([i \in 1..Len(t) |->
        IF i \in Placeholders(t) /\ t[i + 1].v \in DOMAIN M THEN M[t[i + 1].v]
        ELSE IF \E p \in Placeholders(t) :
                    i \in {p + 1, p + 2} /\ t[p + 1].v \in DOMAIN M THEN <<>>
        ELSE <<t[i]>>])
InheritedKeyUsed ==
    \E p \in Placeholders(interp.prompt) :
        /\ interp.prompt[p + 1].v \in ObjectPrototypeKeys
        /\ interp.prompt[p + 1].v \notin DOMAIN interp.variables

\* C29: interpolatePrompt(T, M) replaces every {k} whose k is a key of M
\* with M[k], the empty string included, leaves every other {k} as it is,
\* and does not scan the substituted values again.
C29_InterpolationByKeys ==
    interp.pc = "returned" =>
        interp.result = Substituted(interp.prompt, interp.variables)
\* The same for templates none of whose placeholders names a member that
\* the variables object only inherits.
C29_OwnKeysInterpolation ==
    (interp.pc = "returned" /\ ~InheritedKeyUsed) =>
        interp.result = Substituted(interp.prompt, interp.variables)
\* A value holding a placeholder of another key was inserted as it is.
C29_NoRescanWitness ==
    /\ interp.pc = "returned"
    /\ interp.prompt = <<Open, W("a"), Close, Open, W("b"), Close>>
    /\ interp.variables = [a |-> <<Open, W("b"), Close>>, b |-> <<W("x")>>]
    /\ interp.result = <<Open, W("b"), Close, W("x")>>

\* The last top-level call was a stateless invoke and has settled.
StatelessSettled ==
    /\ stack = <<>>
    /\ outcome.pc \in {"done", "threw"}
    /\ outcome.method = "invoke"
    /\ outcome.stateless
SameLogs(s, before) ==
    /\ s.history = before.history
    /\ s.conversation_flow = before.conversation_flow
    /\ s.transfers = before.transfers

\* C30: a stateless invoke neither uses nor updates stored state: the
\* provider sees the current system prompt and message only, and afterwards
\* the history, flow log and transfer log of every conversation of the
\* agent are what they were before the call, transfer or not.
C30_StatelessInvokeFrameless ==
    StatelessSettled =>
        LET a == outcome.agent
            sys == systemprompt[a]
            userPrompt == interpolatePrompt(outcome.message, outcome.variables)
            prompt == IF sys # <<>>
                      THEN interpolatePrompt(sys, outcome.variables)
                               \o <<Nl>> \o userPrompt
                      ELSE userPrompt
        IN  /\ outcome.context = ProviderContext(a, <<>>, sys, prompt)
            /\ SameLogs(Peek(conversationStates, a, "stateless"), outcome.pre)
            /\ SameLogs(Peek(conversationStates, a, "default"), outcome.preDefault)
\* The same for the calls whose answer carried no directive to a connected
\* target.
C30_StatelessWithoutDispatch ==
    (StatelessSettled /\ outcome.dispatch = 0) =>
        /\ SameLogs(Peek(conversationStates, outcome.agent, "stateless"), outcome.pre)
        /\ SameLogs(Peek(conversationStates, outcome.agent, "default"),
                    outcome.preDefault)

\* What a pending or finished call of the chain shows: where it stands, the
\* messages its provider call was made with, and what it got and returned.
FrameView(f) ==
    [agent |-> f.agent, conv |-> f.conv, pc |-> f.pc, context |-> f.context,
     answer |-> f.answer, ret |-> f.ret]
ChainView(stk) == [i \in 1..Len(stk) |-> FrameView(stk[i])]
\* Call p stands in the shared store as it does when made alone, and its
\* conversation's logs are those of the call made alone.
AsAlone(p) ==
    /\ ChainView(conc.calls[p].stack) = ChainView(alone[p].stack)
    /\ SameLogs(Peek(conc.cs, "A", ConvOf(p)), Peek(alone[p].cs, "A", ConvOf(p)))
\* Some agent's "stateless" conversation has messages: a stateless call of
\* a peer ran a tool.
StatelessHistoryKept ==
    \E a \in Agents :
        "stateless" \in DOMAIN conc.cs[a] /\ conc.cs[a]["stateless"].history # <<>>

\* C22: two calls on one agent with different conversation ids, interleaved
\* at their awaits in every way: each conversation's history, flow log and
\* transfer log are those of the call made alone, and so are the messages
\* of every provider call made for it.
C22_ConcurrentCallsIsolated == \A p \in Procs : AsAlone(p)
\* The same as long as no stateless call of a peer has left messages.
C22_IsolatedWithoutStatelessHistory ==
    ~StatelessHistoryKept => \A p \in Procs : AsAlone(p)
\* The conversations of the two calls themselves, at all times.
C22_OwnLogsAsAlone ==
    \A p \in Procs :
        SameLogs(Peek(conc.cs, "A", ConvOf(p)), Peek(alone[p].cs, "A", ConvOf(p)))
\* Both calls ran a tool and were answered while the other was in flight.
C22_InterleavedWitness ==
    /\ \A p \in Procs :
           /\ Len(conc.calls[p].stack) = 1
           /\ conc.calls[p].stack[1].pc = "done"
           /\ HadToolRound(conc.calls[p].stack[1])
    /\ Len(Peek(conc.cs, "A", "c1").history) = 4
    /\ Len(Peek(conc.cs, "A", "default").history) = 4

\* The tool results a provider context holds: tool messages, and in the
\* textual protocol the user messages "Tool result for <name>: <result>".
IsToolResult(m) ==
    \/ m.role = "tool"
    \/ (m.role = "user" /\ m.content # <<>> /\ m.content[1] = Word("Tool result for"))
ResultsIn(context) ==
    Cardinality({i \in 1..Len(context) : IsToolResult(context[i])})
ProviderCallInFlight == gen.pc \in {"streaming", "await_create"}

\* C31: within one turn, every provider call made after tool execution is
\* given the result of every tool executed earlier in the turn, those of
\* all earlier rounds included.
C31_RecallHoldsAllToolResults ==
    ProviderCallInFlight => ResultsIn(gen.pendingContents) = CountEvents("resolved")
\* The same in the textual protocol, whose generator keeps one growing
\* currentContents.
C31_TextualRecallHoldsAllToolResults ==
    (ProviderCallInFlight /\ TextualProtocol) =>
        ResultsIn(gen.pendingContents) = CountEvents("resolved")
\* A third provider call of a streamed turn, after two tool rounds.
C31_TextualWitness ==
    /\ ProviderCallInFlight /\ TextualProtocol
    /\ obs.rounds = 3
    /\ ResultsIn(gen.pendingContents) >= 2

\* The context message c carries the history message m: same role, and the
\* content of m at its end (Gemini puts the system prompt before the first
\* user message).
Carries(c, m) ==
    /\ c.role = m.role
    /\ Len(c.content) >= Len(m.content)
    /\ SubSeq(c.content, Len(c.content) - Len(m.content) + 1, Len(c.content))
           = m.content
\* The messages ms are carried by the context from position i on, in order.
RECURSIVE Embedded(_, _, _)
Embedded(ms, context, i) ==
    IF ms = <<>> THEN TRUE
    ELSE IF i > Len(context) THEN FALSE
    ELSE IF Carries(context[i], Head(ms)) THEN Embedded(Tail(ms), context, i + 1)
    ELSE Embedded(ms, context, i + 1)
Dialogue(history) == SelectSeq(history, LAMBDA m : m.role \in {"user", "assistant"})
FirstProviderCall == ProviderCallInFlight /\ obs.rounds = 1

\* C32: at the first provider call of a stateful turn, streaming or not,
\* first turn or later, the context holds every user and assistant message
\* of the conversation's history, in order, the current user message among
\* them.
C32_FirstCallHoldsHistory ==
    FirstProviderCall => Embedded(Dialogue(stateHistory), gen.pendingContents, 1)
\* The same for the non-streaming OpenAI call and for Gemini.
C32_FirstCallHoldsHistoryOtherPaths ==
    (FirstProviderCall /\ ~(gen.agent = "A" /\ gen.mode = "stream")) =>
        Embedded(Dialogue(stateHistory), gen.pendingContents, 1)
\* A later turn of Gemini, streamed: three messages carried.
C32_LaterTurnWitness ==
    /\ FirstProviderCall
    /\ gen.agent = "B" /\ gen.mode = "stream"
    /\ Len(Dialogue(stateHistory)) = 3
    /\ Embedded(Dialogue(stateHistory), gen.pendingContents, 1)

SystemMessages(history) == {i \in 1..Len(history) : history[i].role = "system"}
\* A stateful call stands at its provider call.
AtProviderCall(f) == f.pc = "await_invoke" /\ ~f.stateless

\* C33: with a system prompt set, a conversation's history never holds more
\* than one system message, that message is the first one, and at every
\* provider call of a stateful turn it is there and its content is the
\* system prompt interpolated with the variables of that turn.
C33_OneSystemMessageFirst ==
    /\ \A a \in Agents : \A id \in DOMAIN conversationStates[a] :
           SystemMessages(conversationStates[a][id].history) \subseteq {1}
    /\ \A i \in 1..Len(stack) :
           AtProviderCall(stack[i]) =>
               LET f == stack[i]
                   h == conversationStates[f.agent][f.conv].history
               IN  /\ SystemMessages(h) = {1}
                   /\ h[1].content = interpolatePrompt(systemprompt[f.agent], f.variables)
\* A turn on a conversation whose system message had been pruned away.
C33_Witness ==
    /\ stack # <<>>
    /\ AtProviderCall(Top)
    /\ Top.pre.history # <<>>
    /\ SystemMessages(Top.pre.history) = {}
    /\ SystemMessages(conversationStates[Top.agent][Top.conv].history) = {1}


(***************************************************************************)
(* The tool registry and the Connections map.                              *)
(***************************************************************************)
\* the step is one addTool: one tool pushed on one agent's registry
IsAddTool ==
    \E a \in Agents : \E t \in ToolNames :
        tools' = [tools EXCEPT ![a] = tools[a] \o <<t>>]

\* the step is one connect: on one agent the given keys hold the given routes
\* and every other key holds what it held
IsConnect ==
    \E a \in Agents : \E routes \in RouteMaps(a) \cup OverrideMaps(a) :
        /\ \A b \in Agents \ {a} : connections'[b] = connections[b]
        /\ DOMAIN connections'[a] = DOMAIN connections[a] \cup DOMAIN routes
        /\ \A t \in DOMAIN routes : connections'[a][t] = routes[t]
        /\ \A t \in DOMAIN connections[a] \ DOMAIN routes :
               connections'[a][t] = connections[a][t]

\* the step belongs to no invoke, run, stream, handleTransfer, clearState or
\* pruning: no conversation, call or log changes in it
NoCallStep ==
    UNCHANGED <<conversationStates, nextThread, stack, outcome, dispatchLog, nCalls>>

\* C34: the tool registry changes only in an addTool step and the Connections
\* map only in a connect step; every step of a call, of a transfer, of
\* clearState and of pruning leaves both as they are, and a connect sets the
\* given keys and leaves every other route of the agent as it was.
C34_RegistryFrame ==
    [][ /\ (tools' # tools => IsAddTool /\ NoCallStep /\ connections' = connections)
        /\ (connections' # connections => IsConnect /\ NoCallStep /\ tools' = tools)
      ]_vars

\* agent A holds a tool and an overridden HUMAN route next to its BILLING
\* route, and a call with a transfer and a clearState have been made
C34_Witness ==
    /\ tools["A"] # <<>>
    /\ connections["A"]["HUMAN"] = FnConn("operator")
    /\ connections["A"]["BILLING"] = LLMConn("B")
    /\ outcome.pc = "cleared"
    /\ nCalls = MaxCalls

(***************************************************************************)
(* run against invoke.                                                     *)
(***************************************************************************)
\* the history, flow log and transfer log a call leaves in its conversation
Logs(w, id) ==
    LET st == Peek(w.cs, "A", id)
    IN  <<st.history, st.conversation_flow, st.transfers>>
TwinSettled == TwinIdle /\ twin.turns > 0
SameOutcome ==
    /\ twin.ret["run"] = twin.ret["invoke"]
    /\ Logs(twin.w["run"], twin.id) = Logs(twin.w["invoke"], twin.id)

\* C35: run(message, {variables}, id) and invoke(message, variables, id),
\* given the same answers, return the same string and leave the same
\* history, flow log and transfer log in conversation id.
C35_RunEqualsInvoke == TwinSettled => SameOutcome

\* The same for every id that is not the empty string.
C35_RunEqualsInvokeOnNonEmptyId == (TwinSettled /\ twin.id # "") => SameOutcome

\* a second turn on a conversation id, with a transfer to a peer, has returned
C35_NonEmptyIdWitness ==
    /\ TwinSettled
    /\ twin.id = "c1"
    /\ twin.turns = MaxTurns
    /\ Len(Logs(twin.w["run"], "c1")[3]) > 0
    /\ Len(Logs(twin.w["run"], "c1")[1]) > 3

(***************************************************************************)
(* Estimated token usage.                                                  *)
(***************************************************************************)
UsageRecorded == usage.pc = "done"
ResponseLength == Sum(usage.deltas)
NonEmptyDeltas == {i \in 1..Len(usage.deltas) : usage.deltas[i] > 0}

\* C36: the output-token count recorded for a streamed turn is
\* ceil(L / 4), L the length of the whole response text, however the text
\* was split into deltas, and the input-token count is ceil(length of the
\* serialized context / 4).
C36_EstimateOfWholeText ==
    UsageRecorded =>
        /\ usage.recorded[1].outputTokens = CeilQuarter(ResponseLength)
        /\ usage.recorded[1].inputTokens = CeilQuarter(usage.context)

\* What is recorded: the input estimate, and one estimate per non-empty
\* delta added up; it is ceil(L / 4) when the text came in at most one
\* non-empty delta.
C36_EstimatePerDelta ==
    UsageRecorded =>
        /\ usage.recorded[1].inputTokens = CeilQuarter(usage.context)
        /\ usage.recorded[1].outputTokens >= CeilQuarter(ResponseLength)
        /\ usage.recorded[1].outputTokens <= ResponseLength
        /\ Cardinality(NonEmptyDeltas) <= 1 =>
               usage.recorded[1].outputTokens = CeilQuarter(ResponseLength)

\* a text of five characters in three deltas has been recorded
C36_SplitWitness ==
    /\ UsageRecorded
    /\ ResponseLength = 5
    /\ Cardinality(NonEmptyDeltas) = 3

(***************************************************************************)
(* Errors of a peer or a callback during routing.                          *)
(***************************************************************************)
\* the connection the settled call invoked threw or rejected
RoutingFailed ==
    /\ Idle
    /\ outcome.pc \in {"done", "threw"}
    /\ outcome.dispatch \in 1..Len(dispatchLog)
    /\ dispatchLog[outcome.dispatch].status = "threw"
\* a call that rejected had not begun to route
RejectedBeforeRouting(f) == f.pc = "threw" => f.dispatch = 0

\* C37: when the peer or the callback a call was routed to throws (the
\* peer's own provider or tool failure included), the call does not reject:
\* it returns "[ERROR: Failed to <type> to <target> - <message>]", and the
\* transfer-log entry of the attempt stays in the conversation's log.
C37_RoutingErrorsCaught ==
    /\ \A i \in 1..Len(stack) : RejectedBeforeRouting(stack[i])
    /\ RejectedBeforeRouting(outcome)
    /\ RoutingFailed =>
          /\ outcome.pc = "done"
          /\ outcome.ret = ErrFailed(outcome.rtype, outcome.rtarget,
                                     dispatchLog[outcome.dispatch].error)
          /\ Peek(conversationStates, outcome.agent, outcome.conv).transfers
                = Append(outcome.pre.transfers,
                         Transfer(outcome.rtype, outcome.rtarget))

\* a call routed to a peer agent whose provider failed has returned
C37_PeerFailedWitness ==
    /\ RoutingFailed
    /\ dispatchLog[outcome.dispatch].kind = "llm"
    /\ ~outcome.stateless

(***************************************************************************)
(* The history of a routed turn.                                           *)
(***************************************************************************)
\* a stateful call that has been routed to a connection
Routed(f) ==
    /\ f.pc \in {"await_function", "await_peer", "done"}
    /\ ~f.stateless
    /\ f.dispatch > 0
\* the history the turn leaves when its assistant message is stored
HistoryOfTurn(f) ==
    LET sys == systemprompt[f.agent]
        seeded == IF sys = <<>> THEN f.pre.history
                  ELSE IF f.pre.history # <<>> /\ f.pre.history[1].role = "system"
                       THEN [f.pre.history EXCEPT
                               ![1] = Message("system", interpolatePrompt(sys, f.variables))]
                       ELSE <<Message("system", interpolatePrompt(sys, f.variables))>>
                                \o f.pre.history
        full == seeded \o <<Message("user", interpolatePrompt(f.message, f.variables)),
                            Message("assistant", f.answer)>>
        window == maxContextWindow[f.agent]
    IN  IF window > 0 /\ Len(full) > window
        THEN SubSeq(full, Len(full) - window + 1, Len(full))
        ELSE full
OwnAnswerKept(f) ==
    LET history == conversationStates[f.agent][f.conv].history
    IN  /\ history = HistoryOfTurn(f)
        /\ history[Len(history)] = Message("assistant", f.answer)
        /\ HasMatch(f.answer, "TRANSFER") \/ HasMatch(f.answer, "ESCALATE")

\* C38: after a stateful turn was routed to a peer or a callback, the last
\* message of the conversation's history is the agent's own answer with its
\* directive token; neither the resolved response nor any other message is
\* appended by routing, while it is pending and after it returned.
C38_HistoryKeepsOwnAnswer ==
    /\ \A i \in 1..Len(stack) : Routed(stack[i]) => OwnAnswerKept(stack[i])
    /\ (Idle /\ Routed(outcome)) => OwnAnswerKept(outcome)

\* a stateful call routed to a peer has returned the peer's answer, which is
\* not its own
C38_Witness ==
    /\ Idle
    /\ Routed(outcome)
    /\ outcome.pc = "done"
    /\ dispatchLog[outcome.dispatch].kind = "llm"
    /\ dispatchLog[outcome.dispatch].status = "returned"
    /\ outcome.ret # outcome.answer

(***************************************************************************)
(* The peer's flow log merged into the caller's.                           *)
(***************************************************************************)
Occurrences(flow, e) == Cardinality({i \in 1..Len(flow) : flow[i] = e})
\* the entries the peer recorded: its own turns on its default conversation
RecordedBy(peer) ==
    LET flow == Peek(conversationStates, peer, "default").conversation_flow
    IN  {flow[i] : i \in {j \in 1..Len(flow) : flow[j].transferTarget = None
                                                /\ flow[j].llmName = AgentName(peer)}}
\* no entry recorded by the peer stands in a flow log of the caller more often
\* than in the peer's own
MergedAtMostOnce(caller, peer) ==
    \A id \in DOMAIN conversationStates[caller] : \A e \in RecordedBy(peer) :
        Occurrences(conversationStates[caller][id].conversation_flow, e)
            <= Occurrences(Peek(conversationStates, peer, "default").conversation_flow, e)
TransfersTo(caller, peer) ==
    Cardinality({i \in 1..Len(dispatchLog) :
                    dispatchLog[i].by = caller /\ dispatchLog[i].ref = peer
                    /\ dispatchLog[i].status = "returned"})

\* C39: after any number of transfers from agent A to peer B, every flow
\* entry recorded by B stands at most once in A's flow log.
C39_PeerEntriesMergedOnce == MergedAtMostOnce("A", "B")

\* The same while A has made at most one call.
C39_MergedOnceByFirstCall == nCalls <= 1 => MergedAtMostOnce("A", "B")

\* A's first call has merged an entry that B recorded before the transfer
C39_FirstMergeWitness ==
    /\ nCalls = 1
    /\ Idle
    /\ \E e \in RecordedBy("B") :
          Occurrences(conversationStates["A"]["default"].conversation_flow, e) = 1

(***************************************************************************)
(* The StreamResponse of stream().                                         *)
(***************************************************************************)
BothConsumed == \A c \in Consumers : resp.iter[c].done
\* the deltas of the chunks `stream` yielded before its final chunk
StreamYielded ==
    LET chunks == resp.iter["stream"].manager.returned
    IN  [i \in 1..(Len(chunks) - 1) |-> chunks[i].delta]

\* C40: fullContent resolves to all deltas of the underlying response
\* joined, and `stream` yields every delta once, in order, however the two
\* are consumed.
C40_ConsumersSeeWholeResponse ==
    BothConsumed =>
        /\ resp.fullContent = Flatten(resp.deltas)
        /\ StreamYielded = resp.deltas

\* What the two iterators do: every chunk of the underlying stream reaches
\* one of them, and an iterator that took every chunk holds the text twice,
\* the second time from the content of the underlying final chunk.
C40_ChunksDividedBetweenConsumers ==
    BothConsumed =>
        /\ Len(resp.iter["stream"].manager.deltas)
             + Len(resp.iter["fullContent"].manager.deltas)
               = Len(resp.deltas) + (IF resp.deltas = <<>> THEN 0 ELSE 1)
        /\ resp.iter["stream"].manager.deltas = <<>> =>
               resp.fullContent = Flatten(resp.deltas) \o Flatten(resp.deltas)

\* the two iterators have each taken a part of a response of two deltas
C40_InterleavedWitness ==
    /\ BothConsumed
    /\ Len(resp.deltas) = 2
    /\ resp.iter["stream"].manager.deltas # <<>>
    /\ resp.iter["fullContent"].manager.deltas # <<>>
====
